---- MODULE Spec2Model ----
(***************************************************************************)
(* Brainpile core: the task queue (tasks table), the chat event handler    *)
(* (bot.rs), the enrichment worker loop (worker.rs) and the feedback it    *)
(* leaves on the chat surface (reactions, error replies), the reaction     *)
(* tagging of bot.rs and the listing and deletion handlers of api.rs.      *)
(*                                                                         *)
(* Every step of a handler is one relational-store round trip or one chat  *)
(* transport call (the await points of the source); handlers of different  *)
(* cooperative tasks interleave between steps. A transaction of several    *)
(* statements takes effect as one step, at its commit.                     *)
(***************************************************************************)
EXTENDS Integers, Sequences, FiniteSets, TLC

\* ------------------------------------------------------------------ bounds
NumWorkers == 2       \* processes running run_worker against the same store
MaxMsgs == 2          \* submission messages 10 .. 9 + MaxMsgs of the chat
MaxResets == 1        \* operator resets (failed -> pending) in one run
MaxRedeliveries == 1  \* re-deliveries of already queued submissions in one run
MaxFaults == 1        \* chat transport calls that fail in one run
MaxReactions == 1     \* reactions in the old and in the new list of one update
MaxTasks == 3         \* task rows ever inserted in the deletion runs
MaxHits == 2          \* hits of one recall channel in the small search runs
MaxBytes == 3         \* bytes of a file or a text in the hashing runs
MaxTags == 2          \* tag rows inserted in one run

Workers == 1..NumWorkers
Chats == {42}
MsgIds == 10..(9 + MaxMsgs)
Keys == Chats \X MsgIds
\* payload.tg_group_id values an album enqueuer writes
GroupIds == {"G1"}
\* stringified pipeline errors
Errors == {"boom", "bang"}
\* payloads of a panic inside the pipeline
Panics == {"oops"}

\* Option<T> as a set with at most one element
None == {}
Some(x) == {x}
The(o) == CHOOSE x \in o : TRUE

VARIABLES
    tasks,        \* tasks table: id -> row
    nextTaskId,   \* tasks.id serial
    clock,        \* the store's NOW()
    items,        \* items table: id -> row
    nextItemId,   \* items.id serial
    entities,     \* entities table: the ids of the entity rows
    tagRows,      \* tags table: id -> <<icon_type, icon_value>>
    nextTagId,    \* tags.id serial
    tagLabel,     \* tags table: id -> label
    blobs,        \* object store: the keys that hold an object
    rh,           \* process_message_reaction: its position and locals
    dl,           \* delete_item: its position and locals
    api,          \* the last request a read handler answered, with its response
    reaction,     \* chat surface: the bot's reaction on each message
    replies,      \* chat surface: error replies sent by the bot, id -> message
    nextReplyId,  \* chat surface: id of the next message the bot sends
    pc,           \* worker -> its position in process_next_task
    wtask,        \* worker -> Option(task id) (the leased row)
    wresult,      \* worker -> result of perform_task
    wprev,        \* worker -> prev_error_reply read from the row
    hist,         \* history per task: leases, resets, sends, transport faults,
                  \* the reactions its submission shows
    ndup,         \* history: re-deliveries so far
    nfaults,      \* history: failed chat transport calls so far
    nresets       \* history: operator resets so far

vars == <<tasks, nextTaskId, clock, items, nextItemId, entities, tagRows,
          nextTagId, tagLabel, blobs, rh, dl, api, reaction, replies, nextReplyId, pc, wtask,
          wresult, wprev, hist, ndup, nfaults, nresets>>

chatVars == <<reaction, replies, nextReplyId>>
storeVars == <<tasks, nextTaskId, clock, items, nextItemId>>
catalogVars == <<entities, tagRows, nextTagId, tagLabel, blobs, rh, dl, api>>
localVars == <<wtask, wresult, wprev>>
ghostVars == <<ndup, nfaults, nresets>>
tagVars == <<tagRows, nextTagId, tagLabel>>
handlerVars == <<rh, dl, api>>

Max(S) == CHOOSE x \in S : \A y \in S : y <= x
Min(S) == CHOOSE x \in S : \A y \in S : x <= y

\* the orders in which a loop may visit a set
Orders(A) ==
    {f \in [1..Cardinality(A) -> A] : \A x, y \in DOMAIN f : f[x] = f[y] => x = y}

\* the elements of a set of numbers, smallest first
Ascending(S) ==
    IF S = {} THEN <<>>
    ELSE LET lo == Min(S)
         IN  SelectSeq([i \in 1..(Max(S) - lo + 1) |-> lo + i - 1], LAMBDA x : x \in S)

TaskIds == DOMAIN tasks
KeyOf(t) == <<tasks[t].bot_chat_id, tasks[t].bot_message_id>>
TerminalStatuses == {"completed", "failed"}

\* ------------------------------------------------------------ pure helpers

\* worker.rs payload_group_id_str: a non-blank string is the album id
payload_group_id_str(payload) ==
    IF payload.tg_group_id # None /\ The(payload.tg_group_id) # ""
    THEN Some(The(payload.tg_group_id))
    ELSE None

\* what the chat delivers as message m. Messages up to 11 are forwards from
\* channel -100 (MessageOrigin::Channel); later ones are sent by user 7 and
\* are not forwards. forward_source is the (source_chat_id, source_message_id,
\* source_user_id) process_message derives.
forward_source(m) ==
    IF m <= 11
    THEN [chat |-> Some(-100), message |-> Some(m), user |-> None]
    ELSE [chat |-> None, message |-> None, user |-> Some(7)]

\* the entity process_message upserts for message m: the forward origin, or
\* the sender of a message that is not a forward
source_entity(m) == forward_source(m).chat \cup forward_source(m).user

\* payload.file_id: messages with an even id carry a photo, the others are text
file_id(m) == IF m % 2 = 0 THEN Some("photo") ELSE None

\* perform_task: s.parse::<i64>() of payload.tg_group_id, for the album ids
\* the model uses ("7" is the decimal one)
parse_i64(str) == IF str = "7" THEN Some(7) ELSE None

tg_group_id_i64(payload) ==
    IF payload.tg_group_id = None THEN None ELSE parse_i64(The(payload.tg_group_id))

\* a plausible slip: the panic payload alone
PanicMessageBare(p) == p

\* format!("Internal Panic: {}", s)
PanicPrefix == "Internal Panic: "
PanicMessage(p) == PanicPrefix \o p

\* tasks has UNIQUE (bot_chat_id, bot_message_id)
Conflicts(ts, c, m) ==
    \E t \in DOMAIN ts : ts[t].bot_chat_id = c /\ ts[t].bot_message_id = m

NewRow(c, m, payload, now) ==
    [bot_chat_id |-> c, bot_message_id |-> m,
     source_chat_id |-> forward_source(m).chat,
     source_message_id |-> forward_source(m).message,
     source_user_id |-> forward_source(m).user,
     status |-> "pending",
     payload |-> payload, item_id |-> None, error_message |-> None,
     error_reply_id |-> None, created_at |-> now]

\* INSERT INTO items (...) VALUES (...) at the end of perform_task; the blob
\* keys are fresh (a uuid each, here the stamp), set when the task has a file
NewItem(row, stamp) ==
    [s3_key |-> IF row.payload.file_id # None THEN Some(<<"media", stamp>>) ELSE None,
     thumbnail_key |-> IF row.payload.file_id # None THEN Some(<<"thumb", stamp>>) ELSE None,
     tg_chat_id |-> row.source_chat_id,
     tg_user_id |-> row.source_user_id,
     tg_group_id |-> tg_group_id_i64(row.payload),
     tags |-> <<>>]

BlobKeys(item) == item.s3_key \cup item.thumbnail_key

\* tags @> ARRAY[tag]::int[]
HasTag(item, tag) == \E k \in DOMAIN item.tags : item.tags[k] = tag

\* a plausible slip: an upsert that re-queues the existing row
InsertOrRequeue(ts, id, c, m, payload, now) ==
    IF Conflicts(ts, c, m)
    THEN [t \in DOMAIN ts |->
            IF ts[t].bot_chat_id = c /\ ts[t].bot_message_id = m
            THEN [ts[t] EXCEPT !.status = "pending", !.payload = payload]
            ELSE ts[t]]
    ELSE ts @@ (id :> NewRow(c, m, payload, now))

\* INSERT INTO tasks ... VALUES (.., 'pending', payload) ON CONFLICT DO NOTHING
InsertOrIgnore(ts, id, c, m, payload, now) ==
    IF Conflicts(ts, c, m)
    THEN ts
    ELSE ts @@ (id :> NewRow(c, m, payload, now))

NewHist == [leases |-> 0, resets |-> 0, sends |-> 0,
            reactFault |-> FALSE, replyFault |-> FALSE, items |-> {},
            shown |-> {}, onItem |-> FALSE]

\* set_message_reaction(chat, message).reaction([emoji]); errors are swallowed
SetReaction(r, key, emoji, ok) ==
    IF ok THEN [r EXCEPT ![key] = emoji] ELSE r


\* the worker's result local before perform_task has returned
NoResult == [item |-> None, err |-> None, panic |-> FALSE]

\* the handlers' locals when no update or request is being handled
RhIdle == [pc |-> "idle", msg |-> None, item |-> None, added |-> {}, removed |-> {},
           tag |-> None]
DlIdle == [pc |-> "idle", id |-> None, keys |-> <<>>, ents |-> {}, resp |-> None]

\* no request answered yet
ApiIdle == [op |-> "none", req |-> <<>>, resp |-> <<>>]

\* ------------------------------------------------------------------- Init

Init ==
    /\ tasks = <<>>
    /\ nextTaskId = 1
    /\ clock = 0
    /\ items = <<>>
    /\ nextItemId = 1
    /\ entities = {}
    /\ tagRows = <<>>
    /\ nextTagId = 1
    /\ tagLabel = <<>>
    /\ blobs = {}
    /\ rh = RhIdle
    /\ dl = DlIdle
    /\ api = ApiIdle
    /\ reaction = [k \in Keys |-> "none"]
    /\ replies = <<>>
    /\ nextReplyId = 1
    /\ pc = [w \in Workers |-> "idle"]
    /\ wtask = [w \in Workers |-> None]
    /\ wresult = [w \in Workers |-> NoResult]
    /\ wprev = [w \in Workers |-> None]
    /\ hist = <<>>
    /\ ndup = 0
    /\ nfaults = 0
    /\ nresets = 0


\* ------------------------------------------------- submission (chat boundary)

\* the outcomes a chat transport call can have now (the model bounds the failures)
Oks == IF nfaults < MaxFaults THEN BOOLEAN ELSE {TRUE}
Faults(ok) == IF ok THEN 0 ELSE 1

\* the row insert shared by both enqueuers; created_at defaults to NOW(), which
\* may or may not have advanced since the previous insert
Enqueue(c, m, payload) ==
    IF Conflicts(tasks, c, m)
    THEN /\ ndup < MaxRedeliveries
         /\ ndup' = ndup + 1
         /\ tasks' = InsertOrIgnore(tasks, nextTaskId, c, m, payload, clock)
         /\ UNCHANGED <<nextTaskId, clock, hist>>
    ELSE \E d \in (IF tasks = <<>> THEN {1} ELSE {0, 1}) :
         /\ clock' = clock + d
         /\ tasks' = InsertOrIgnore(tasks, nextTaskId, c, m, payload, clock + d)
         /\ nextTaskId' = nextTaskId + 1
         /\ hist' = hist @@ (nextTaskId :> NewHist)
         /\ UNCHANGED ndup

\* bot.rs process_message: react with eyes, then queue the task. The payload
\* it builds never carries tg_group_id.
process_message(c, m) ==
    /\ \E ok \in Oks :
          /\ reaction' = SetReaction(reaction, <<c, m>>, "eyes", ok)
          /\ nfaults' = nfaults + Faults(ok)
    /\ entities' = entities \cup source_entity(m)
    /\ Enqueue(c, m, [tg_group_id |-> None, file_id |-> file_id(m)])
    /\ UNCHANGED <<items, nextItemId, replies, nextReplyId, pc, localVars, nresets,
                   tagVars, blobs, handlerVars>>

\* enqueue(submission_coords, payload) of a member of an album: insert-or-ignore
\* with payload.tg_group_id set; an accepted member starts with the eyes reaction
enqueue_album(c, m, g) ==
    /\ reaction' = IF Conflicts(tasks, c, m) THEN reaction
                   ELSE SetReaction(reaction, <<c, m>>, "eyes", TRUE)
    /\ entities' = entities \cup source_entity(m)
    /\ Enqueue(c, m, [tg_group_id |-> Some(g), file_id |-> file_id(m)])
    /\ UNCHANGED <<items, nextItemId, replies, nextReplyId, pc, localVars, nresets, nfaults,
                   tagVars, blobs, handlerVars>>

\* manual reset by the operator: a failed row is set back to pending, nothing
\* else on the row changes
OperatorReset(t) ==
    /\ tasks[t].status = "failed"
    /\ nresets < MaxResets
    /\ tasks' = [tasks EXCEPT ![t].status = "pending"]
    /\ hist' = [hist EXCEPT ![t].resets = @ + 1]
    /\ nresets' = nresets + 1
    /\ UNCHANGED <<nextTaskId, clock, items, nextItemId, chatVars, pc, localVars,
                   ndup, nfaults, entities, tagVars, blobs, handlerVars>>

\* ------------------------------------------------------ worker (worker.rs)

Holding(w) == pc[w] \notin {"idle", "locked"}
Task(w) == The(wtask[w])

\* a plausible slip: a plain SELECT, without FOR UPDATE SKIP LOCKED
LockableRowsNoLock(w) ==
    {t \in TaskIds : tasks[t].status = "pending"}

\* a plausible slip: the lease also picks up failed rows (automatic retry)
LockableRowsWithFailed(w) ==
    {t \in TaskIds :
        /\ tasks[t].status \in {"pending", "failed"}
        /\ ~ \E v \in Workers \ {w} : pc[v] = "locked" /\ wtask[v] = Some(t)}

\* WHERE status = 'pending' ... FOR UPDATE SKIP LOCKED: the pending rows no
\* other open transaction holds a row lock on
LockableRows(w) ==
    {t \in TaskIds :
        /\ tasks[t].status = "pending"
        /\ ~ \E v \in Workers \ {w} : pc[v] = "locked" /\ wtask[v] = Some(t)}

\* a plausible slip: ORDER BY created_at DESC
NewestFirst(S) ==
    {t \in S : \A u \in S : tasks[u].created_at <= tasks[t].created_at}

\* ORDER BY created_at ASC LIMIT 1: any row of the least created_at
OldestFirst(S) ==
    {t \in S : \A u \in S : tasks[t].created_at <= tasks[u].created_at}

\* a plausible slip: the completion forgets the status column
CompleteRowKeepStatus(row, item) ==
    [row EXCEPT !.item_id = Some(item), !.error_reply_id = None]

\* UPDATE tasks SET status = 'completed', item_id = $1, error_reply_id = NULL
CompleteRow(row, item) ==
    [row EXCEPT !.status = "completed", !.item_id = Some(item),
                !.error_reply_id = None]

\* UPDATE tasks SET status = 'failed', error_message = $1, error_reply_id = $2
FailRow(row, e, reply) ==
    [row EXCEPT !.status = "failed", !.error_message = Some(e),
                !.error_reply_id = reply]

\* a plausible slip: the failure branch never looks at the stored reply id
ErrorReplyAlwaysSend(prev) == "send"

\* if let Some(reply_id) = prev_error_reply { edit } else { send }
ErrorReplyPlan(prev) == IF prev # None THEN "edit" ELSE "send"

\* the rows update_album_reaction aggregates:
\* WHERE bot_chat_id = $1 AND payload->>'tg_group_id' = $2
AlbumMembers(ts, c, g) ==
    {t \in DOMAIN ts : ts[t].bot_chat_id = c /\ ts[t].payload.tg_group_id = Some(g)}

\* MIN(bot_message_id) AS leader_message_id
AlbumLeader(ts, c, g) ==
    Min({ts[t].bot_message_id : t \in AlbumMembers(ts, c, g)})

\* the policy of update_album_reaction: any failed => thumbs-down,
\* all completed => heart, otherwise nothing is emitted
AlbumEmoji(ts, c, g) ==
    LET mem == AlbumMembers(ts, c, g)
        any_failed == \E t \in mem : ts[t].status = "failed"
        all_completed == \A t \in mem : ts[t].status = "completed"
    IN  IF mem = {} THEN None
        ELSE IF any_failed THEN Some("down")
        ELSE IF all_completed THEN Some("heart")
        ELSE None

\* update_album_reaction(state, bot, bot_chat_id, group_id)
update_album_reaction(r, ts, c, g, ok) ==
    IF AlbumEmoji(ts, c, g) = None THEN r
    ELSE SetReaction(r, <<c, AlbumLeader(ts, c, g)>>, The(AlbumEmoji(ts, c, g)), ok)

\* the feedback after the pipeline: the album aggregate for an album member,
\* the member's own reaction otherwise
TerminalReaction(r, ts, t, emoji, ok) ==
    LET gid == payload_group_id_str(ts[t].payload)
    IN  IF gid # None
        THEN update_album_reaction(r, ts, ts[t].bot_chat_id, The(gid), ok)
        ELSE SetReaction(r, <<ts[t].bot_chat_id, ts[t].bot_message_id>>, emoji, ok)

\* whether the feedback makes a transport call (the album scan may emit nothing)
EmitsReaction(ts, t) ==
    LET gid == payload_group_id_str(ts[t].payload)
    IN  gid = None \/ AlbumEmoji(ts, ts[t].bot_chat_id, The(gid)) # None

Idle(w) ==
    /\ pc' = [pc EXCEPT ![w] = "idle"]
    /\ wtask' = [wtask EXCEPT ![w] = None]
    /\ wresult' = [wresult EXCEPT ![w] = NoResult]
    /\ wprev' = [wprev EXCEPT ![w] = None]

\* process_next_task, BEGIN; SELECT ... FOR UPDATE SKIP LOCKED (no row: Ok(false))
WSelect(w) ==
    /\ pc[w] = "idle"
    /\ \E t \in OldestFirst(LockableRows(w)) :
          wtask' = [wtask EXCEPT ![w] = Some(t)]
    /\ pc' = [pc EXCEPT ![w] = "locked"]
    /\ UNCHANGED <<storeVars, chatVars, wresult, wprev, hist, ghostVars, catalogVars>>

\* UPDATE tasks SET status = 'processing' WHERE id = $1; COMMIT
WLease(w) ==
    /\ pc[w] = "locked"
    /\ tasks' = [tasks EXCEPT ![Task(w)].status = "processing"]
    /\ hist' = [hist EXCEPT ![Task(w)].leases = @ + 1,
                            ![Task(w)].reactFault = FALSE]
    /\ pc' = [pc EXCEPT ![w] = "perform"]
    /\ UNCHANGED <<nextTaskId, clock, items, nextItemId, chatVars, localVars, ghostVars,
                   catalogVars>>

\* the result of perform_task under catch_unwind: Ok(res) => res, and a panic
\* payload becomes Err("Internal Panic: ...")
PipelineFailures ==
    {[item |-> None, err |-> Some(e), panic |-> FALSE] : e \in Errors}
    \cup {[item |-> None, err |-> Some(PanicMessage(p)), panic |-> TRUE] : p \in Panics}

\* the stages of perform_task that call out: get_file and download_file,
\* put_object, the VLM OCR request, the CLIP request, the embeddings request
\* and the INSERT INTO items; the first four run for a task with a file
MediaStages == {"download", "upload", "ocr", "clip"}
Stages(row) ==
    (IF row.payload.file_id # None THEN MediaStages ELSE {}) \cup {"embed", "insert"}

\* what can go wrong in one attempt: a stage returns Err(e), or one of the
\* three enrichment services answers with a non-success status
StageFaults(row) ==
    {[stage |-> st, kind |-> "err", e |-> e] : st \in Stages(row), e \in Errors}
    \cup {[stage |-> st, kind |-> "status", e |-> e] :
              st \in Stages(row) \cap {"ocr", "clip", "embed"}, e \in Errors}

\* a plausible slip: the Err of a stage logged like a non-success status
AbortsNever(fault) == FALSE

\* `.send().await?` and the other `?` return the Err; a non-success status is
\* logged (or ignored, for CLIP) and the pipeline goes on without the result
Aborts(fault) == fault.kind = "err"

\* perform_task ran to its end: the media is uploaded and the Item inserted
WInserted(w) ==
    LET t == Task(w)
        item == NewItem(tasks[t], nextItemId)
    IN
    /\ items' = items @@ (nextItemId :> item)
    /\ blobs' = blobs \cup BlobKeys(item)
    /\ nextItemId' = nextItemId + 1
    /\ wresult' = [wresult EXCEPT ![w] =
                      [item |-> Some(nextItemId), err |-> None, panic |-> FALSE]]
    /\ hist' = [hist EXCEPT ![t].items = @ \cup {nextItemId}]
    /\ pc' = [pc EXCEPT ![w] = "ok_update"]

\* perform_task returned res, an Err or a caught panic, before the insert
WAborted(w, res) ==
    /\ wresult' = [wresult EXCEPT ![w] = res]
    /\ pc' = [pc EXCEPT ![w] = "err_react"]
    /\ UNCHANGED <<items, nextItemId, blobs, hist>>

\* perform_task with the given fault in one of its stages
WPerformWith(w, fault) ==
    /\ pc[w] = "perform"
    /\ fault \in StageFaults(tasks[Task(w)])
    /\ IF Aborts(fault)
       THEN WAborted(w, [item |-> None, err |-> Some(fault.e), panic |-> FALSE])
       ELSE WInserted(w)
    /\ UNCHANGED <<tasks, nextTaskId, clock, chatVars, wtask, wprev, ghostVars,
                   entities, tagVars, handlerVars>>

\* perform_task under catch_unwind: Ok(item_id) after the media upload and the
\* INSERT INTO items, or Err(e) from a stage before the insert, or a panic
WPerform(w) ==
    \/ /\ pc[w] = "perform"
       /\ \/ WInserted(w)
          \/ \E res \in {r \in PipelineFailures : r.panic} : WAborted(w, res)
       /\ UNCHANGED <<tasks, nextTaskId, clock, chatVars, wtask, wprev, ghostVars,
                      entities, tagVars, handlerVars>>
    \/ \E st \in MediaStages \cup {"embed", "insert"}, k \in {"err", "status"}, e \in Errors :
          WPerformWith(w, [stage |-> st, kind |-> k, e |-> e])

\* Ok(item_id): SELECT error_reply_id; UPDATE tasks SET status = 'completed', ...
WOkUpdate(w) ==
    /\ pc[w] = "ok_update"
    /\ wprev' = [wprev EXCEPT ![w] = tasks[Task(w)].error_reply_id]
    /\ tasks' = [tasks EXCEPT ![Task(w)] = CompleteRow(@, The(wresult[w].item))]
    /\ pc' = [pc EXCEPT ![w] = "ok_feedback"]
    /\ UNCHANGED <<nextTaskId, clock, items, nextItemId, chatVars, wtask, wresult,
                   hist, ghostVars, catalogVars>>

\* Ok(item_id): album aggregate or heart on the submission, then
\* delete_message(chat, prev_error_reply) when a reply id was stored
WOkFeedback(w) ==
    LET t == Task(w) IN
    /\ pc[w] = "ok_feedback"
    /\ \E ok \in (IF EmitsReaction(tasks, t) THEN Oks ELSE {TRUE}),
          del \in (IF wprev[w] # None THEN Oks ELSE {TRUE}) :
          /\ nfaults + Faults(ok) + Faults(del) <= MaxFaults
          /\ nfaults' = nfaults + Faults(ok) + Faults(del)
          /\ reaction' = TerminalReaction(reaction, tasks, t, "heart", ok)
          /\ replies' = IF wprev[w] # None /\ del
                        THEN [r \in DOMAIN replies \ wprev[w] |-> replies[r]]
                        ELSE replies
          /\ hist' = [hist EXCEPT ![t].reactFault = @ \/ ~ok,
                                  ![t].replyFault = @ \/ ~del]
    /\ Idle(w)
    /\ UNCHANGED <<storeVars, nextReplyId, ndup, nresets, catalogVars>>

\* Err(e): album aggregate or thumbs-down on the submission
WErrReact(w) ==
    LET t == Task(w) IN
    /\ pc[w] = "err_react"
    /\ \E ok \in (IF EmitsReaction(tasks, t) THEN Oks ELSE {TRUE}) :
          /\ nfaults' = nfaults + Faults(ok)
          /\ reaction' = TerminalReaction(reaction, tasks, t, "down", ok)
          /\ hist' = [hist EXCEPT ![t].reactFault = @ \/ ~ok]
    /\ pc' = [pc EXCEPT ![w] = "err_finish"]
    /\ UNCHANGED <<storeVars, replies, nextReplyId, localVars, ndup, nresets,
                   catalogVars>>

\* Err(e): SELECT error_reply_id; edit the stored reply or send a new one
\* (Ok(sent) => sent.id, Err(_) => 0); UPDATE tasks SET status = 'failed',
\* error_message = $1, error_reply_id = $2 (NULL for 0)
WErrFinish(w) ==
    LET t == Task(w)
        prev == tasks[t].error_reply_id
        e == The(wresult[w].err)
    IN
    /\ pc[w] = "err_finish"
    /\ \E ok \in Oks :
          /\ nfaults' = nfaults + Faults(ok)
          /\ IF ErrorReplyPlan(prev) = "edit"
             THEN /\ replies' = IF ok /\ prev \subseteq DOMAIN replies
                                THEN [replies EXCEPT ![The(prev)].text = e]
                                ELSE replies
                  /\ tasks' = [tasks EXCEPT ![t] = FailRow(@, e, prev)]
                  /\ hist' = [hist EXCEPT ![t].replyFault = @ \/ ~ok]
                  /\ UNCHANGED nextReplyId
             ELSE IF ok
             THEN /\ replies' = replies @@ (nextReplyId :> [to |-> KeyOf(t), text |-> e])
                  /\ nextReplyId' = nextReplyId + 1
                  /\ tasks' = [tasks EXCEPT ![t] = FailRow(@, e, Some(nextReplyId))]
                  /\ hist' = [hist EXCEPT ![t].sends = @ + 1]
             ELSE /\ tasks' = [tasks EXCEPT ![t] = FailRow(@, e, None)]
                  /\ hist' = [hist EXCEPT ![t].replyFault = TRUE]
                  /\ UNCHANGED <<replies, nextReplyId>>
    /\ Idle(w)
    /\ UNCHANGED <<nextTaskId, clock, items, nextItemId, reaction, ndup, nresets,
                   catalogVars>>

process_next_task(w) ==
    \/ WSelect(w)
    \/ WLease(w)
    \/ WPerform(w)
    \/ WOkUpdate(w)
    \/ WOkFeedback(w)
    \/ WErrReact(w)
    \/ WErrFinish(w)

\* ------------------------------------------------ reaction tagging (bot.rs)

\* the reactions a MessageReactionUpdated lists: an emoji, a custom emoji, a
\* paid reaction
ReactionTypes ==
    {[kind |-> "emoji", v |-> "fire"], [kind |-> "custom", v |-> "555"],
     [kind |-> "paid", v |-> ""]}

\* old_reaction, new_reaction of one update
ReactionLists == {S \in SUBSET ReactionTypes : Cardinality(S) <= MaxReactions}

\* the reactions one user can show on a message at a time
UpdateLists == {S \in SUBSET ReactionTypes : Cardinality(S) <= MaxReactions + 1}

\* bot.rs reaction_key: (icon_type, icon_value), None for the other kinds
reaction_key(r) ==
    IF r.kind = "emoji" THEN Some(<<"emoji", r.v>>)
    ELSE IF r.kind = "custom" THEN Some(<<"tmoji", r.v>>)
    ELSE None

\* a plausible slip: the lists are not subtracted from each other
DiffWithoutSubtraction(old, new) == [added |-> new, removed |-> old]

\* bot.rs diff_reactions: (new - old, old - new)
diff_reactions(old, new) == [added |-> new \ old, removed |-> old \ new]

\* a plausible slip: a submission without an Item falls back to the newest Item
ResolveOrNewest(ts, c, m) ==
    LET hits == {t \in DOMAIN ts : /\ ts[t].bot_chat_id = c
                                   /\ ts[t].bot_message_id = m
                                   /\ ts[t].item_id # None}
    IN  IF hits # {} THEN ts[Max(hits)].item_id
        ELSE IF DOMAIN items # {} THEN Some(Max(DOMAIN items)) ELSE None

\* SELECT item_id FROM tasks WHERE bot_chat_id = $1 AND bot_message_id = $2
\* AND item_id IS NOT NULL ORDER BY id DESC LIMIT 1
resolve_item_id_by_bot_message(ts, c, m) ==
    LET hits == {t \in DOMAIN ts : /\ ts[t].bot_chat_id = c
                                   /\ ts[t].bot_message_id = m
                                   /\ ts[t].item_id # None}
    IN  IF hits = {} THEN None ELSE ts[Max(hits)].item_id

\* SELECT id FROM tags WHERE icon_type = $1 AND icon_value = $2; the table
\* has UNIQUE (icon_type, icon_value)
TagIdOf(tr, key) == {t \in DOMAIN tr : tr[t] = key}

\* a plausible slip: a plain INSERT, a new row on every call
InsertTagAlways(tr, next, key) ==
    [rows |-> tr @@ (next :> key), next |-> next + 1, id |-> next]

\* INSERT INTO tags ... ON CONFLICT (icon_type, icon_value) DO UPDATE SET
\* icon_value = EXCLUDED.icon_value RETURNING id
upsert_tag_id(tr, next, key) ==
    IF TagIdOf(tr, key) # {}
    THEN [rows |-> tr, next |-> next, id |-> The(TagIdOf(tr, key))]
    ELSE [rows |-> tr @@ (next :> key), next |-> next + 1, id |-> next]

\* UPDATE items SET tags = CASE WHEN tags @> ARRAY[$1] THEN tags
\* ELSE array_append(tags, $1) END WHERE id = $2
attach_tag_to_item(its, i, tag) ==
    IF i \in DOMAIN its /\ ~HasTag(its[i], tag)
    THEN [its EXCEPT ![i].tags = Append(@, tag)]
    ELSE its

array_remove(seq, x) == SelectSeq(seq, LAMBDA y : y # x)

\* UPDATE items SET tags = array_remove(tags, $1) WHERE id = $2
detach_tag_from_item(its, i, tag) ==
    IF i \in DOMAIN its
    THEN [its EXCEPT ![i].tags = array_remove(@, tag)]
    ELSE its

\* what the steps of the reaction handler and of delete_tag leave alone
besideTagging == <<tasks, nextTaskId, clock, nextItemId, entities, blobs, dl, api,
                   chatVars, pc, localVars, hist, ghostVars>>

\* process_message_reaction: resolve the Item of the submission, diff the lists
RResolve(c, m, old, new) ==
    /\ rh.pc = "idle"
    /\ rh' = [pc |-> "loop", msg |-> Some(<<c, m>>),
              item |-> resolve_item_id_by_bot_message(tasks, c, m),
              added |-> diff_reactions(old, new).added,
              removed |-> diff_reactions(old, new).removed,
              tag |-> None]
    /\ UNCHANGED <<besideTagging, items, tagVars>>

\* process_message_reaction for an update of the one user who reacts to the
\* submission of task t: old_reaction is what the submission showed before
\* the update, new_reaction what it shows from now on
UserReacts(t, new) ==
    LET old == hist[t].shown
        item == resolve_item_id_by_bot_message(tasks, tasks[t].bot_chat_id,
                                               tasks[t].bot_message_id)
    IN  /\ rh.pc = "idle"
        /\ new # old
        /\ rh' = [pc |-> "loop", msg |-> Some(KeyOf(t)),
                  item |-> item,
                  added |-> diff_reactions(old, new).added,
                  removed |-> diff_reactions(old, new).removed,
                  tag |-> None]
        /\ hist' = [hist EXCEPT ![t].shown = new, ![t].onItem = item # None]
        /\ UNCHANGED <<tasks, nextTaskId, clock, nextItemId, entities, blobs, dl, api,
                       chatVars, pc, localVars, ghostVars, items, tagVars>>

\* let Some(item_id) = ... else { return Ok(()) }; and the return after the loops
RReturn ==
    /\ rh.pc = "loop"
    /\ rh.item = None \/ (rh.added = {} /\ rh.removed = {})
    /\ rh' = RhIdle
    /\ UNCHANGED <<besideTagging, items, tagVars>>

\* for r in added / for r in removed: reaction_key(&r) is None => continue
RSkip ==
    /\ rh.pc = "loop" /\ rh.item # None
    /\ \/ \E r \in rh.added :
             /\ reaction_key(r) = None
             /\ rh' = [rh EXCEPT !.added = @ \ {r}]
       \/ /\ rh.added = {}
          /\ \E r \in rh.removed :
                /\ reaction_key(r) = None
                /\ rh' = [rh EXCEPT !.removed = @ \ {r}]
    /\ UNCHANGED <<besideTagging, items, tagVars>>

\* for r in added: upsert_tag_id (the model bounds the rows ever inserted)
RUpsert ==
    /\ rh.pc = "loop" /\ rh.item # None
    /\ \E r \in rh.added :
          /\ reaction_key(r) # None
          /\ LET u == upsert_tag_id(tagRows, nextTagId, The(reaction_key(r)))
             IN  /\ u.next <= MaxTags + 1
                 /\ tagRows' = u.rows
                 /\ nextTagId' = u.next
                 /\ tagLabel' = [t \in DOMAIN u.rows |->
                                    IF t \in DOMAIN tagLabel THEN tagLabel[t] ELSE None]
                 /\ rh' = [rh EXCEPT !.pc = "attach", !.tag = Some(u.id),
                                     !.added = @ \ {r}]
    /\ UNCHANGED <<besideTagging, items>>

\* for r in added: attach_tag_to_item(item_id, tag_id)
RAttach ==
    /\ rh.pc = "attach"
    /\ items' = attach_tag_to_item(items, The(rh.item), The(rh.tag))
    /\ rh' = [rh EXCEPT !.pc = "loop"]
    /\ UNCHANGED <<besideTagging, tagVars>>

\* for r in removed: look the tag up, detach_tag_from_item(item_id, tag_id)
RDetach ==
    /\ rh.pc = "loop" /\ rh.item # None /\ rh.added = {}
    /\ \E r \in rh.removed :
          /\ reaction_key(r) # None
          /\ LET tag == TagIdOf(tagRows, The(reaction_key(r)))
             IN  items' = IF tag # None
                          THEN detach_tag_from_item(items, The(rh.item), The(tag))
                          ELSE items
          /\ rh' = [rh EXCEPT !.removed = @ \ {r}, !.tag = None]
    /\ UNCHANGED <<besideTagging, tagVars>>

process_message_reaction ==
    \/ \E c \in Chats, m \in MsgIds, old \in ReactionLists, new \in ReactionLists :
          RResolve(c, m, old, new)
    \/ RReturn
    \/ RSkip
    \/ RUpsert
    \/ RAttach
    \/ RDetach

\* ---------------------------------------------------- tag deletion (api.rs)

\* a plausible slip: the tag row is deleted, the Items keep its id
DetachNowhere(its, tag) == its

\* UPDATE items SET tags = array_remove(tags, $1) WHERE tags @> ARRAY[$1]
DetachEverywhere(its, tag) ==
    [i \in DOMAIN its |-> [its[i] EXCEPT !.tags = array_remove(@, tag)]]

\* DELETE /tags/:id: BEGIN; detach from every Item; DELETE FROM tags WHERE id;
\* COMMIT. A failing statement rolls both back: nothing changes.
DeleteTagTx(id) ==
    /\ items' = DetachEverywhere(items, id)
    /\ tagRows' = [t \in DOMAIN tagRows \ {id} |-> tagRows[t]]
    /\ tagLabel' = [t \in DOMAIN tagLabel \ {id} |-> tagLabel[t]]
    /\ UNCHANGED <<tasks, nextTaskId, clock, nextItemId, entities, blobs, dl, chatVars,
                   pc, localVars, hist, ghostVars, nextTagId, rh>>

\* the deletion of a tag, its response not kept
delete_tag(id) == DeleteTagTx(id) /\ UNCHANGED api

\* --------------------------------------------------- item deletion (api.rs)

OptSeq(o) == IF o = None THEN <<>> ELSE <<The(o)>>

\* a plausible slip: the tasks of the Item are left in place
TasksOfNoItem(ts, id) == {}

\* DELETE FROM tasks WHERE item_id = $1
TasksOfItem(ts, id) == {t \in DOMAIN ts : ts[t].item_id = Some(id)}

\* a plausible slip: the entities of the Item go with it, without the count
OrphansUncounted(its, ents) == ents

\* SELECT COUNT(*) FROM items WHERE tg_chat_id = $1 OR tg_user_id = $1, = 0:
\* the entities of ents no Item of its references
Orphans(its, ents) ==
    {e \in ents :
        ~ \E i \in DOMAIN its : its[i].tg_chat_id = Some(e) \/ its[i].tg_user_id = Some(e)}

besideDeletion == <<nextTaskId, clock, nextItemId, tagVars, rh, api, chatVars, pc,
                    localVars, hist, ghostVars>>

\* step 1: SELECT s3_key, thumbnail_key, tg_chat_id, tg_user_id; no row: 404
DFetch(id) ==
    /\ dl.pc = "idle"
    /\ dl' = IF id \in DOMAIN items
             THEN [pc |-> "tx", id |-> Some(id),
                   keys |-> OptSeq(items[id].s3_key) \o OptSeq(items[id].thumbnail_key),
                   ents |-> items[id].tg_chat_id \cup items[id].tg_user_id,
                   resp |-> None]
             ELSE [DlIdle EXCEPT !.id = Some(id), !.resp = Some(404)]
    /\ UNCHANGED <<besideDeletion, tasks, items, entities, blobs>>

\* step 2: BEGIN; DELETE FROM tasks WHERE item_id; DELETE FROM items WHERE id;
\* the entity cleanup; COMMIT. No row deleted: 404
DCommit ==
    LET id == The(dl.id)
        rest == [i \in DOMAIN items \ {id} |-> items[i]]
    IN  /\ dl.pc = "tx"
        /\ tasks' = [t \in DOMAIN tasks \ TasksOfItem(tasks, id) |-> tasks[t]]
        /\ items' = rest
        /\ entities' = entities \ Orphans(rest, dl.ents)
        /\ dl' = IF id \in DOMAIN items
                 THEN [dl EXCEPT !.pc = "s3"]
                 ELSE [DlIdle EXCEPT !.id = dl.id, !.resp = Some(404)]
        /\ UNCHANGED <<besideDeletion, blobs>>

\* a statement of the transaction or its commit fails: `?` answers 500 and
\* the transaction is rolled back
DAbort ==
    /\ dl.pc = "tx"
    /\ dl' = [DlIdle EXCEPT !.id = dl.id, !.resp = Some(500)]
    /\ UNCHANGED <<besideDeletion, tasks, items, entities, blobs>>

\* step 3: bucket.delete_object of s3_key, then of thumbnail_key; a failure
\* is logged and dropped
DBlob ==
    /\ dl.pc = "s3"
    /\ dl.keys # <<>>
    /\ \/ blobs' = blobs \ {Head(dl.keys)}
       \/ blobs' = blobs
    /\ dl' = [dl EXCEPT !.keys = Tail(@)]
    /\ UNCHANGED <<besideDeletion, tasks, items, entities>>

\* Ok(Json({"success": true}))
DRespond ==
    /\ dl.pc = "s3"
    /\ dl.keys = <<>>
    /\ dl' = [DlIdle EXCEPT !.id = dl.id, !.resp = Some(200)]
    /\ UNCHANGED <<besideDeletion, tasks, items, entities, blobs>>

\* DELETE /items/:id
delete_item(id) ==
    \/ DFetch(id)
    \/ (dl.id = Some(id) /\ DCommit)
    \/ (dl.id = Some(id) /\ DAbort)
    \/ (dl.id = Some(id) /\ DBlob)
    \/ (dl.id = Some(id) /\ DRespond)

\* ------------------------------------------------- item listing (api.rs)

\* a plausible slip: the tag filter without the album expansion
TagFilterDirect(its, i, tag) == HasTag(its[i], tag)

\* a plausible slip: the album expansion without the IS NOT NULL tests
TagFilterNullGroups(its, i, tag) ==
    \/ HasTag(its[i], tag)
    \/ \E j \in DOMAIN its :
          its[j].tg_group_id = its[i].tg_group_id /\ HasTag(its[j], tag)

\* the tag_id clause of list_items: tags @> ARRAY[tag] OR (tg_group_id IS NOT
\* NULL AND tg_group_id IN (SELECT tg_group_id FROM items WHERE tg_group_id
\* IS NOT NULL AND tags @> ARRAY[tag]))
TagFilter(its, i, tag) ==
    \/ HasTag(its[i], tag)
    \/ /\ its[i].tg_group_id # None
       /\ \E j \in DOMAIN its :
             /\ its[j].tg_group_id # None
             /\ its[j].tg_group_id = its[i].tg_group_id
             /\ HasTag(its[j], tag)

\* the WHERE clause list_items builds in timeline mode from its parameters
\* (each an Option): id < cursor, (tg_chat_id = e OR tg_user_id = e), tag
ListWhere(its, cursor, entity_id, tag_id) ==
    {i \in DOMAIN its :
        /\ cursor # None => i < The(cursor)
        /\ entity_id # None
           => (its[i].tg_chat_id = entity_id \/ its[i].tg_user_id = entity_id)
        /\ tag_id # None => TagFilter(its, i, The(tag_id))}

\* ORDER BY id DESC LIMIT n
RECURSIVE OrderDescLimit(_, _)
OrderDescLimit(S, n) ==
    IF S = {} \/ n <= 0 THEN <<>>
    ELSE <<Max(S)>> \o OrderDescLimit(S \ {Max(S)}, n - 1)

\* params.limit.unwrap_or(20).min(100)
EffectiveLimit(limit) == Min({IF limit = None THEN 20 ELSE The(limit), 100})

\* GET /items in timeline mode: the ids of the page, in the order returned
list_items(its, cursor, entity_id, tag_id, limit) ==
    OrderDescLimit(ListWhere(its, cursor, entity_id, tag_id), EffectiveLimit(limit))

Range(seq) == {seq[k] : k \in DOMAIN seq}

\* the WHERE clause of random mode: the cursor is not applied
RandomWhere(its, entity_id, tag_id) == ListWhere(its, None, entity_id, tag_id)

\* ORDER BY RANDOM() LIMIT limit over the matching rows: any of them, in any
\* order, as many as the limit allows; a negative LIMIT is an error of the
\* store, which fetch_all(...).unwrap_or_default() turns into no rows
RandomSamples(matching, limit) ==
    IF limit < 0 THEN {<<>>}
    ELSE UNION {Orders(S) : S \in {T \in SUBSET matching :
                    Cardinality(T) = Min({limit, Cardinality(matching)})}}

\* the album ids of the sampled rows
SampledGroups(its, base_rows) ==
    UNION {its[base_rows[k]].tg_group_id : k \in DOMAIN base_rows}

\* SELECT ... FROM items WHERE tg_group_id = ANY($1): the rows of the sampled
\* albums, in any order; none when no album was sampled or the query fails
ExtraRows(its, base_rows, ok) ==
    LET group_ids == SampledGroups(its, base_rows) IN
    IF group_ids = {} \/ ~ok THEN {<<>>}
    ELSE Orders({i \in DOMAIN its : its[i].tg_group_id # None
                                    /\ its[i].tg_group_id \subseteq group_ids})

\* for row in base_rows.chain(extra_rows): skip the ids already seen
RECURSIVE FirstOccurrences(_)
FirstOccurrences(seq) ==
    IF seq = <<>> THEN <<>>
    ELSE LET front == FirstOccurrences(SubSeq(seq, 1, Len(seq) - 1))
             last == seq[Len(seq)]
         IN  IF last \in Range(front) THEN front ELSE Append(front, last)

\* the limits of the random listings
RandomLimits == {None, Some(-1), Some(0), Some(1), Some(2)}

\* GET /items?mode=random
ListRandom ==
    /\ \E entity_id \in {None, Some(-100)}, limit \in RandomLimits,
          base_ok \in BOOLEAN, extra_ok \in BOOLEAN :
       \E base_rows \in (IF base_ok
                         THEN RandomSamples(RandomWhere(items, entity_id, None),
                                            EffectiveLimit(limit))
                         ELSE {<<>>}) :
       \E extra_rows \in ExtraRows(items, base_rows, extra_ok) :
          api' = [op |-> "list_random",
                  req |-> [entity_id |-> entity_id, limit |-> limit,
                           base_rows |-> base_rows, extra_ok |-> extra_ok],
                  resp |-> [status |-> 200,
                            items |-> FirstOccurrences(base_rows \o extra_rows)]]
    /\ UNCHANGED <<storeVars, chatVars, entities, tagVars, blobs, rh, dl, pc,
                   localVars, hist, ghostVars>>

\* `limit as usize`: a negative i64 wraps to 2^64 + limit, above every length
as_usize(n) == [wraps |-> n < 0, n |-> IF n < 0 THEN 0 ELSE n]

\* the rows of one timeline query: fetch_all(...).await.unwrap_or_default(), no
\* rows when the store fails the query (a negative LIMIT included)
TimelineRows(its, cursor, entity_id, tag_id, limit, ok) ==
    IF ok THEN list_items(its, cursor, entity_id, tag_id, limit) ELSE <<>>

\* a plausible slip: the cursor is set on every page that has a row
NextCursorOfAnyPage(base_rows, limit) ==
    IF base_rows = <<>> THEN None ELSE Some(base_rows[Len(base_rows)])

\* if mode != "random" && items.len() == limit as usize
\* { base_rows.last().map(id) } else { None }
next_cursor(base_rows, limit) ==
    IF ~as_usize(limit).wraps /\ Len(base_rows) = as_usize(limit).n /\ base_rows # <<>>
    THEN Some(base_rows[Len(base_rows)])
    ELSE None

\* the limits and entity filters of the timeline walks
TimelineLimits == {None, Some(-1), Some(0), Some(1), Some(2), Some(101)}
TimelineEntities == {None, Some(7), Some(-100)}

\* GET /items in timeline mode, as a client walks the pages: the first request
\* carries no cursor, each later one the next_cursor of the page before it and
\* the same filters and limit; walked is what the earlier pages returned
ListTimeline ==
    /\ \E q \in [entity_id : TimelineEntities, limit : TimelineLimits], ok \in BOOLEAN :
          LET first == api = ApiIdle
              cursor == IF first THEN None ELSE api.resp.next_cursor
              walked == IF first THEN <<>> ELSE api.req.walked \o api.resp.items
              base_rows == TimelineRows(items, cursor, q.entity_id, None, q.limit, ok)
          IN  /\ \/ first
                 \/ /\ api.op = "list_timeline"
                    /\ api.resp.next_cursor # None
                    /\ q.entity_id = api.req.entity_id
                    /\ q.limit = api.req.limit
              /\ api' = [op |-> "list_timeline",
                         req |-> [entity_id |-> q.entity_id, limit |-> q.limit,
                                  cursor |-> cursor, walked |-> walked, ok |-> ok],
                         resp |-> [status |-> 200, items |-> base_rows,
                                   next_cursor |->
                                       next_cursor(base_rows, EffectiveLimit(q.limit))]]
    /\ UNCHANGED <<storeVars, chatVars, entities, tagVars, blobs, rh, dl, pc,
                   localVars, hist, ghostVars>>

\* ------------------------------------------------ content hash (worker.rs)

\* the byte strings of up to MaxBytes bytes, over two byte values
ByteStrings == UNION {[1..n -> {0, 1}] : n \in 0..MaxBytes}

\* md5::compute: the digest of a byte string, taken as collision-free
Md5(bytes) == [md5 |-> bytes]

\* format!("{:x}", digest): the 32 lower-case hexadecimal characters of a
\* digest, kept as one piece of a string
HexLower(digest) == <<[hex |-> digest]>>

\* a plausible slip: the two digests joined in the other order
ContentHashTextFirst(file_bytes, content_text) ==
    IF file_bytes # <<>> /\ content_text # <<>>
    THEN HexLower(Md5(HexLower(Md5(content_text)) \o HexLower(Md5(file_bytes))))
    ELSE IF file_bytes # <<>>
    THEN HexLower(Md5(file_bytes))
    ELSE HexLower(Md5(content_text))

\* perform_task: let content_hash = if ... { ... } else if ... { ... } else { ... }
content_hash(file_bytes, content_text) ==
    IF file_bytes # <<>> /\ content_text # <<>>
    THEN LET file_hash == HexLower(Md5(file_bytes))
             text_hash == HexLower(Md5(content_text))
         IN  HexLower(Md5(file_hash \o text_hash))
    ELSE IF file_bytes # <<>>
    THEN HexLower(Md5(file_bytes))
    ELSE HexLower(Md5(content_text))

\* the hashing step of perform_task, on the bytes downloaded for the task and
\* the text of its payload
ContentHash ==
    /\ \E file_bytes \in ByteStrings, content_text \in ByteStrings :
          api' = [op |-> "content_hash",
                  req |-> [file_bytes |-> file_bytes, content_text |-> content_text],
                  resp |-> content_hash(file_bytes, content_text)]
    /\ UNCHANGED <<storeVars, chatVars, entities, tagVars, blobs, rh, dl, pc,
                   localVars, hist, ghostVars>>

\* -------------------------------------------- requests by id (api.rs)

\* what a request that only answers leaves alone
besideAnswer == <<storeVars, chatVars, entities, blobs, rh, dl, pc, localVars, hist,
                  ghostVars>>

Answer(op, id, status) == [op |-> op, req |-> [id |-> id], resp |-> [status |-> status]]

\* GET /items/:id: fetch_optional, a store error mapped to 500
get_item(id) ==
    /\ \E ok \in BOOLEAN :
          api' = Answer("get_item", id,
                        IF ~ok THEN 500 ELSE IF id \in DOMAIN items THEN 200 ELSE 404)
    /\ UNCHANGED <<besideAnswer, tagVars>>

\* GET /items/:id/raw: a redirect to the presigned URL of the Item's blob, and
\* 404 in every other case
get_raw_item(id) ==
    /\ \E ok \in BOOLEAN, presigned \in BOOLEAN :
          api' = Answer("get_raw_item", id,
                        IF ok /\ id \in DOMAIN items /\ items[id].s3_key # None /\ presigned
                        THEN 307 ELSE 404)
    /\ UNCHANGED <<besideAnswer, tagVars>>

\* the labels a PATCH carries
Labels == {None, Some("todo")}

\* PATCH /tags/:id: UPDATE tags SET label = $1 WHERE id = $2, answered with
\* success whenever the statement ran, whatever it matched
update_tag(id) ==
    /\ \E ok \in BOOLEAN, label \in Labels :
          IF ok
          THEN /\ tagLabel' = IF id \in DOMAIN tagLabel
                              THEN [tagLabel EXCEPT ![id] = label] ELSE tagLabel
               /\ api' = Answer("update_tag", id, 200)
          ELSE /\ tagLabel' = tagLabel
               /\ api' = Answer("update_tag", id, 500)
    /\ UNCHANGED <<besideAnswer, tagRows, nextTagId>>

\* DELETE /tags/:id with its response: 404 after the commit when the DELETE
\* matched no row, 500 and nothing changed when a statement failed
DeleteTagById(id) ==
    \/ /\ DeleteTagTx(id)
       /\ api' = Answer("delete_tag", id, IF id \in DOMAIN tagRows THEN 200 ELSE 404)
    \/ /\ api' = Answer("delete_tag", id, 500)
       /\ UNCHANGED <<besideAnswer, tagVars>>

\* ------------------------------------------------- source links (api.rs)

\* an i64 around 10^12 is kept as hi * Base + lo with 0 <= lo < Base
Base == 1000000

I64(n) == [hi |-> n \div Base, lo |-> n % Base]

Neg64(a) ==
    IF a.lo = 0 THEN [hi |-> -a.hi, lo |-> 0] ELSE [hi |-> -a.hi - 1, lo |-> Base - a.lo]

Add64(a, b) ==
    [hi |-> a.hi + b.hi + (a.lo + b.lo) \div Base, lo |-> (a.lo + b.lo) % Base]

Sub64(a, b) == Add64(a, Neg64(b))

Leq64(a, b) == a.hi < b.hi \/ (a.hi = b.hi /\ a.lo <= b.lo)

\* 1000000000000_i64
ChannelOffset == [hi |-> Base, lo |-> 0]

\* the six low decimal digits of a number written in full
SixDigits(lo) ==
    (IF lo < 10 THEN "00000" ELSE IF lo < 100 THEN "0000" ELSE IF lo < 1000 THEN "000"
     ELSE IF lo < 10000 THEN "00" ELSE IF lo < 100000 THEN "0" ELSE "") \o ToString(lo)

\* format!("{}", n) of an i64
Display(a) ==
    LET abs == IF a.hi < 0 THEN Neg64(a) ELSE a
        digits == IF abs.hi = 0 THEN ToString(abs.lo)
                  ELSE ToString(abs.hi) \o SixDigits(abs.lo)
    IN  IF a.hi < 0 THEN "-" \o digits ELSE digits

\* a plausible slip: the channel number as chat_id + 10^12
ChannelNumberSigned(chat_id) == Add64(chat_id, ChannelOffset)

\* (-chat_id - 1000000000000_i64)
ChannelNumber(chat_id) == Sub64(Neg64(chat_id), ChannelOffset)

\* the match on (tg_chat_id, tg_message_id) of get_item and list_items
ChatLink(tg_chat_id, tg_message_id) ==
    IF tg_chat_id = None THEN None
    ELSE LET chat_id == The(tg_chat_id) IN
         IF tg_message_id # None /\ Leq64(chat_id, Neg64(ChannelOffset))
         THEN Some("https://t.me/c/" \o Display(ChannelNumber(chat_id)) \o "/"
                   \o Display(The(tg_message_id)))
         ELSE IF ~Leq64(chat_id, I64(0))
         THEN Some("tg://user?id=" \o Display(chat_id))
         ELSE IF tg_message_id = None /\ Leq64(chat_id, Neg64(ChannelOffset))
         THEN Some("https://t.me/c/" \o Display(ChannelNumber(chat_id)))
         ELSE None

\* get_item: tg_link
tg_link(item) == ChatLink(item.tg_chat_id, item.tg_message_id)

\* list_items: source_url, from the author when the Item records one
source_url(item) ==
    IF item.tg_user_id # None
    THEN IF ~Leq64(The(item.tg_user_id), I64(0))
         THEN Some("tg://user?id=" \o Display(The(item.tg_user_id)))
         ELSE None
    ELSE ChatLink(item.tg_chat_id, item.tg_message_id)

\* the origins of the link runs: no chat, chat 0, two users, a basic group,
\* the two sides of -10^12 and the channels -1001234567890 and -1009999999999;
\* no message or a message; no author, the hidden author 0 or a user
LinkChats ==
    {None, Some(I64(0)), Some(I64(42)), Some(I64(777000)), Some(I64(-100)),
     Some(Add64(Neg64(ChannelOffset), I64(1))), Some(Neg64(ChannelOffset)),
     Some(Sub64(Neg64(ChannelOffset), I64(1))),
     Some([hi |-> -1001235, lo |-> 432110]), Some([hi |-> -1010000, lo |-> 1])}
LinkMessages == {None, Some(I64(1)), Some(I64(7)), Some(I64(1234567))}
LinkUsers == {None, Some(I64(0)), Some(I64(5))}

\* one Item rendered by get_item and by list_items
RenderLinks ==
    /\ \E chat \in LinkChats, msg \in LinkMessages, user \in LinkUsers :
          LET item == [tg_chat_id |-> chat, tg_message_id |-> msg, tg_user_id |-> user]
          IN  api' = [op |-> "links",
                      req |-> item,
                      resp |-> [tg_link |-> tg_link(item), source_url |-> source_url(item)]]
    /\ UNCHANGED <<storeVars, chatVars, entities, tagVars, blobs, rh, dl, pc,
                   localVars, hist, ghostVars>>

\* ------------------------------------------- hybrid search (api.rs, db.rs)

rrf_k == 60          \* let rrf_k = 60.0
per_channel == 100   \* let per_channel = 100_i64

\* scores are counted in units of 1/ScoreUnit: exact for the ranks 1..3, and
\* rounded down beyond them, which keeps the order of ids with one hit each
ScoreUnit == (rrf_k + 1) * (rrf_k + 2) * (rrf_k + 3)

\* a plausible slip: the rank itself as the score
HitScoreByRank(k, rank) == rank

\* 1.0 / (k + hit.rank as f64)
HitScore(k, rank) == ScoreUnit \div (k + rank)

\* rows.iter().enumerate().map(|(i, row)| SearchHit { id, rank: i + 1 })
Ranked(ids) == [r \in DOMAIN ids |-> [id |-> ids[r], rank |-> r]]

RECURSIVE SumOver(_, _)
SumOver(f, D) ==
    IF D = {} THEN 0
    ELSE LET d == CHOOSE x \in D : TRUE IN f[d] + SumOver(f, D \ {d})

\* a plausible slip: the entry is overwritten by the hit of the last channel
ScoreOfLastHit(channels, k, id) ==
    LET with == {c \in DOMAIN channels : \E r \in DOMAIN channels[c] : channels[c][r].id = id}
        c == Max(with)
        r == Max({x \in DOMAIN channels[c] : channels[c][x].id = id})
    IN  HitScore(k, channels[c][r].rank)

\* *scores.entry(hit.id).or_insert(0.0) += score, over every hit of every channel
ScoreOf(channels, k, id) ==
    SumOver([c \in DOMAIN channels |->
                SumOver([r \in DOMAIN channels[c] |-> HitScore(k, channels[c][r].rank)],
                        {r \in DOMAIN channels[c] : channels[c][r].id = id})],
            DOMAIN channels)

HitIds(channels) ==
    UNION {{channels[c][r].id : r \in DOMAIN channels[c]} : c \in DOMAIN channels}

\* into_iter().take(top_n)
Take(seq, top_n) ==
    IF top_n.wraps \/ top_n.n >= Len(seq) THEN seq ELSE SubSeq(seq, 1, top_n.n)

\* db.rs rrf_merge. order is the order in which the HashMap of the scores is
\* iterated; sort_by is stable, so ids of equal score stay in that order.
rrf_merge(channels, k, top_n, order) ==
    LET scores == [p \in DOMAIN order |->
                      [id |-> order[p], score |-> ScoreOf(channels, k, order[p]), pos |-> p]]
        sorted == SortSeq(scores, LAMBDA a, b :
                      a.score > b.score \/ (a.score = b.score /\ a.pos < b.pos))
    IN  Take([p \in DOMAIN sorted |-> sorted[p].id], top_n)

\* params.limit.unwrap_or(50).min(100)
SearchLimit(limit) ==
    LET l == IF limit = None THEN 50 ELSE The(limit)
    IN  IF l < 100 THEN l ELSE 100

\* item_type of an Item: the submissions with a file are photos
ItemType(item) == IF item.s3_key # None THEN "image" ELSE "text"

\* the channels search_items pushes: recall[c] is None when the encoding call
\* or the query of channel c fails, else the ids the query ranks. Channels 1
\* (text vector), 2 (visual vector of the text) and 3 (full text) need q,
\* channel 4 (visual vector of the image) needs image_url.
AskedChannels(params) ==
    {c \in 1..4 : IF c <= 3 THEN params.q # None ELSE params.image_url # None}

PushedChannels(params, recall) ==
    LET live == SelectSeq(<<1, 2, 3, 4>>,
                          LAMBDA c : c \in AskedChannels(params) /\ recall[c] # None)
    IN  [x \in DOMAIN live |-> Ranked(The(recall[live[x]]))]

\* a plausible slip: the join without ORDER BY t.ord, the rows in id order
HydrateInIdOrder(its, ids, type) ==
    Ascending({i \in {ids[k] : k \in DOMAIN ids} :
                  i \in DOMAIN its /\ (type # None => ItemType(its[i]) = The(type))})

\* fetch_items_by_ids, then the type filter
Hydrate(its, ids, type) ==
    SelectSeq(ids, LAMBDA i : i \in DOMAIN its /\ (type # None => ItemType(its[i]) = The(type)))

\* a plausible slip: the error of a recall channel propagated with `?`
SearchFailsWithChannel(its, params, recall, order, fetch_ok) ==
    LET channels == PushedChannels(params, recall)
        merged == rrf_merge(channels, rrf_k, as_usize(SearchLimit(params.limit)), order)
        found == Hydrate(its, merged, params.type)
    IN  IF params.q = None /\ params.image_url = None
        THEN [status |-> 400, items |-> <<>>, total |-> 0]
        ELSE IF \E c \in AskedChannels(params) : recall[c] = None
        THEN [status |-> 500, items |-> <<>>, total |-> 0]
        ELSE IF ~fetch_ok /\ merged # <<>>
        THEN [status |-> 500, items |-> <<>>, total |-> 0]
        ELSE [status |-> 200, items |-> found, total |-> Len(found)]

\* api.rs search_items: the response to params, given what the recall
\* channels return, the iteration order of the scores and whether
\* fetch_items_by_ids succeeds
search_items(its, params, recall, order, fetch_ok) ==
    LET channels == PushedChannels(params, recall)
        merged == rrf_merge(channels, rrf_k, as_usize(SearchLimit(params.limit)), order)
        found == Hydrate(its, merged, params.type)
    IN  IF params.q = None /\ params.image_url = None
        THEN [status |-> 400, items |-> <<>>, total |-> 0]
        ELSE IF channels = <<>>
        THEN [status |-> 200, items |-> <<>>, total |-> 0]
        ELSE IF ~fetch_ok /\ merged # <<>>
        THEN [status |-> 500, items |-> <<>>, total |-> 0]
        ELSE [status |-> 200, items |-> found, total |-> Len(found)]

\* a store with more Items than one channel returns
LargeStore == Cardinality(DOMAIN items) > per_channel

\* the query parameters of the search runs; against the large store only
\* unfiltered searches whose hydration succeeds
SearchParams ==
    [q : {None, Some("cat")}, image_url : {None, Some("url")},
     type : IF LargeStore THEN {None} ELSE {None, Some("image")},
     limit : {None, Some(-1), Some(0), Some(1), Some(101)}]

FetchOutcomes == IF LargeStore THEN {TRUE} ELSE BOOLEAN

\* the Items channel c can return: the visual channels only images (the
\* other Items have no visual_embedding)
Eligible(c) ==
    IF c \in {2, 4} THEN {i \in DOMAIN items : ItemType(items[i]) = "image"}
    ELSE DOMAIN items

\* what recall channel c can rank: in a small store every sequence of up to
\* MaxHits distinct Items; in a large one a full page or the newest Item
Rankings(c) ==
    IF LargeStore
    THEN {SubSeq(Ascending(Eligible(c)), 1, Min({per_channel, Cardinality(Eligible(c))})),
          <<Max(Eligible(c))>>}
    ELSE UNION {Orders(A) : A \in {B \in SUBSET Eligible(c) : Cardinality(B) <= MaxHits}}

\* the outcomes of the recall channels of one request: None for a channel
\* that is not asked or whose encoding call or query fails
Recalls(params) ==
    {rc \in [1..4 -> {None} \cup UNION {{Some(r) : r \in Rankings(c)} : c \in 1..4}] :
        \A c \in 1..4 : rc[c] # None =>
            c \in AskedChannels(params) /\ The(rc[c]) \in Rankings(c)}

\* the iteration orders tried: every one for a few ids, the ascending one beyond
IterationOrders(ids) ==
    IF Cardinality(ids) > MaxHits + 1 THEN {Ascending(ids)} ELSE Orders(ids)

\* GET /api/v1/search
SearchItems ==
    /\ \E params \in SearchParams, fetch_ok \in FetchOutcomes :
       \E recall \in Recalls(params) :
          LET channels == PushedChannels(params, recall) IN
          \E order \in IterationOrders(HitIds(channels)) :
             api' = [op |-> "search_items",
                     req |-> [params |-> params, recall |-> recall,
                              channels |-> channels, fetch_ok |-> fetch_ok,
                              merged |-> rrf_merge(channels, rrf_k,
                                             as_usize(SearchLimit(params.limit)), order)],
                     resp |-> search_items(items, params, recall, order, fetch_ok)]
    /\ UNCHANGED <<storeVars, chatVars, entities, tagVars, blobs, rh, dl, pc,
                   localVars, hist, ghostVars>>

\* GET /api/v1/search up to rrf_merge, for one of the asked parameters: the
\* recall queries have run and the fused ids are in merged_ids;
\* fetch_items_by_ids is the next await
SearchRecall(asked) ==
    /\ \E params \in asked :
       \E recall \in Recalls(params) :
          LET channels == PushedChannels(params, recall) IN
          /\ channels # <<>>
          /\ \E order \in IterationOrders(HitIds(channels)) :
                api' = [op |-> "search_recall",
                        req |-> [params |-> params, recall |-> recall,
                                 channels |-> channels, order |-> order,
                                 merged |-> rrf_merge(channels, rrf_k,
                                                as_usize(SearchLimit(params.limit)), order)],
                        resp |-> <<>>]
    /\ UNCHANGED <<storeVars, chatVars, entities, tagVars, blobs, rh, dl, pc,
                   localVars, hist, ghostVars>>

\* GET /api/v1/search from fetch_items_by_ids on: the rows of merged_ids the
\* store holds now, the type filter, the response
SearchHydrate ==
    /\ api.op = "search_recall"
    /\ \E fetch_ok \in FetchOutcomes :
          api' = [op |-> "search_items",
                  req |-> [params |-> api.req.params, recall |-> api.req.recall,
                           channels |-> api.req.channels, fetch_ok |-> fetch_ok,
                           merged |-> api.req.merged],
                  resp |-> search_items(items, api.req.params, api.req.recall,
                                        api.req.order, fetch_ok)]
    /\ UNCHANGED <<storeVars, chatVars, entities, tagVars, blobs, rh, dl, pc,
                   localVars, hist, ghostVars>>

\* ------------------------------------------------------------ specifications

Environment ==
    \/ \E c \in Chats, m \in MsgIds : process_message(c, m)
    \/ \E c \in Chats, m \in MsgIds, g \in GroupIds : enqueue_album(c, m, g)
    \/ \E t \in TaskIds : OperatorReset(t)

Next ==
    \/ Environment
    \/ \E w \in Workers : process_next_task(w)

Spec == Init /\ [][Next]_vars

\* the deployment of main.rs: one run_worker
NextSingle ==
    \/ Environment
    \/ process_next_task(1)

SpecSingle == Init /\ [][NextSingle]_vars

\* Ok(item_id), and the SELECT error_reply_id or the UPDATE ... 'completed'
\* returns an error: `?` leaves process_next_task with Err, run_worker logs
\* it, sleeps and goes on with the next iteration
WOkUpdateErr(w) ==
    /\ pc[w] = "ok_update"
    /\ Idle(w)
    /\ UNCHANGED <<storeVars, chatVars, hist, ghostVars, catalogVars>>

\* Err(e), and the UPDATE ... 'failed' returns an error after the reaction and
\* the error reply went out: `?` leaves process_next_task with Err, the row is
\* not written, run_worker logs the error, sleeps and goes on
WErrFinishErr(w) ==
    LET t == Task(w)
        prev == tasks[t].error_reply_id
        e == The(wresult[w].err)
    IN
    /\ pc[w] = "err_finish"
    /\ \E ok \in Oks :
          /\ nfaults' = nfaults + Faults(ok)
          /\ IF ErrorReplyPlan(prev) = "edit"
             THEN /\ replies' = IF ok /\ prev \subseteq DOMAIN replies
                                THEN [replies EXCEPT ![The(prev)].text = e]
                                ELSE replies
                  /\ hist' = [hist EXCEPT ![t].replyFault = @ \/ ~ok]
                  /\ UNCHANGED nextReplyId
             ELSE IF ok
             THEN /\ replies' = replies @@ (nextReplyId :> [to |-> KeyOf(t), text |-> e])
                  /\ nextReplyId' = nextReplyId + 1
                  /\ hist' = [hist EXCEPT ![t].sends = @ + 1]
             ELSE /\ hist' = [hist EXCEPT ![t].replyFault = TRUE]
                  /\ UNCHANGED <<replies, nextReplyId>>
    /\ Idle(w)
    /\ UNCHANGED <<storeVars, reaction, ndup, nresets, catalogVars>>

\* the single worker, with a relational store whose statements may fail
NextStoreErr ==
    \/ NextSingle
    \/ WOkUpdateErr(1)

SpecStoreErr == Init /\ [][NextStoreErr]_vars

\* the single worker under fair scheduling, never crashing: submissions
\* delivered once, a chat transport that may refuse a call, and a relational
\* store that may fail the statements after the pipeline
NextFair ==
    \/ \E c \in Chats, m \in MsgIds : process_message(c, m) /\ ndup' = ndup
    \/ process_next_task(1)
    \/ WOkUpdateErr(1)
    \/ WErrFinishErr(1)

\* run_worker loops forever: a step of process_next_task that can be taken is
\* taken
SpecFair == Init /\ [][NextFair]_vars /\ WF_vars(process_next_task(1))

\* the album id of the tagging runs: a decimal one, as the chat's media group ids
TagAlbumIds == {"7"}

\* the single worker, submissions, reaction updates and tag deletions; every
\* submission is delivered once, the chat transport accepts every call and a
\* failing pipeline fails with "boom"
NextTags ==
    \/ \E c \in Chats, m \in MsgIds :
          process_message(c, m) /\ ndup' = ndup /\ nfaults' = nfaults
    \/ \E c \in Chats, m \in MsgIds, g \in TagAlbumIds :
          enqueue_album(c, m, g) /\ ndup' = ndup
    \/ process_next_task(1) /\ nfaults' = nfaults /\ wresult'[1].err \subseteq {"boom"}
    \/ process_message_reaction
    \/ \E id \in 1..MaxTags : delete_tag(id)

SpecTags == Init /\ [][NextTags]_vars

\* the deletion runs: the single worker with a pipeline that succeeds,
\* submissions that may be delivered twice and sent again once their Item
\* is deleted, and item deletions requested while the worker is at rest
NextDelete ==
    \/ \E c \in Chats, m \in MsgIds :
          process_message(c, m) /\ nfaults' = nfaults /\ nextTaskId' <= MaxTasks + 1
    \/ /\ process_next_task(1)
       /\ nfaults' = nfaults
       /\ wresult'[1].err = None
    \/ \E id \in 1..nextItemId :
          delete_item(id) /\ (dl.pc = "idle" => pc[1] = "idle")

SpecDelete == Init /\ [][NextDelete]_vars


\* the store the search runs start from: the Items of older submissions,
\* three of them or one more than the cap of the limit
SearchStores == {101..(101 + MaxHits), 1..(per_channel + 1)}

SearchRow(i) == NewRow(42, 1000 + i, [tg_group_id |-> None, file_id |-> file_id(i)], i)

InitSearch ==
    \E ids \in SearchStores :
        /\ tasks = [i \in ids |-> CompleteRow(SearchRow(i), i)]
        /\ nextTaskId = Max(ids) + 1
        /\ clock = Max(ids)
        /\ items = [i \in ids |-> NewItem(SearchRow(i), i)]
        /\ nextItemId = Max(ids) + 1
        /\ entities = UNION {source_entity(1000 + i) : i \in ids}
        /\ tagRows = <<>>
        /\ nextTagId = 1
        /\ tagLabel = <<>>
        /\ blobs = UNION {BlobKeys(NewItem(SearchRow(i), i)) : i \in ids}
        /\ rh = RhIdle
        /\ dl = DlIdle
        /\ api = ApiIdle
        /\ reaction = [k \in Keys |-> "none"]
        /\ replies = <<>>
        /\ nextReplyId = 1
        /\ pc = [w \in Workers |-> "idle"]
        /\ wtask = [w \in Workers |-> None]
        /\ wresult = [w \in Workers |-> NoResult]
        /\ wprev = [w \in Workers |-> None]
        /\ hist = [i \in ids |-> [NewHist EXCEPT !.leases = 1, !.items = {i}]]
        /\ ndup = 0
        /\ nfaults = 0
        /\ nresets = 0

\* the search runs: one request against a store at rest
NextSearch == api = ApiIdle /\ SearchItems

SpecSearch == InitSearch /\ [][NextSearch]_vars

\* the runs of the requests by id: one submission processed by the single
\* worker without faults, reactions and tag deletions, and then one request by id
\* (an item deletion while the worker is at rest)
ByIds == 1..2

NextById ==
    \/ /\ api = ApiIdle /\ dl = DlIdle
       /\ \/ \E c \in Chats, m \in MsgIds :
                /\ process_message(c, m)
                /\ ndup' = ndup /\ nfaults' = nfaults /\ nextTaskId' <= 2
          \/ /\ process_next_task(1)
             /\ nfaults' = nfaults
             /\ wresult'[1].err = None
          \/ process_message_reaction
          \/ \E id \in ByIds : delete_tag(id)
    \/ \E id \in ByIds : api = ApiIdle /\ get_item(id)
    \/ \E id \in ByIds : api = ApiIdle /\ get_raw_item(id)
    \/ \E id \in ByIds : api = ApiIdle /\ update_tag(id)
    \/ \E id \in ByIds : api = ApiIdle /\ DeleteTagById(id)
    \/ \E id \in ByIds :
          /\ api = ApiIdle /\ dl.resp = None
          /\ delete_item(id) /\ (dl.pc = "idle" => pc[1] = "idle")

SpecById == Init /\ [][NextById]_vars

\* the searches raced by a deletion: in the small store, one text search
\* with the default limit or limit 1, whose recall queries and hydration are
\* separate steps, and one DELETE /items/:id that may run before, between or
\* after them
NextSearchRaced ==
    \/ /\ api = ApiIdle
       /\ SearchRecall({p \in SearchParams :
                           p.image_url = None /\ p.limit \in {None, Some(1)}})
    \/ SearchHydrate
    \/ \E id \in DOMAIN items \cup dl.id :
          api.op # "search_items" /\ dl.resp = None /\ delete_item(id)

\* the small store of the search runs
InitSearchSmall == InitSearch /\ ~LargeStore

SpecSearchRaced == InitSearchSmall /\ [][NextSearchRaced]_vars

\* the deletions raced with the worker: submissions delivered once, the single
\* worker with a pipeline that succeeds, and one DELETE /items/:id that may
\* start at any moment, also between the INSERT of the Item and the
\* completion UPDATE. When the Item is gone at the UPDATE, the statement
\* either writes the dangling item_id or, where tasks.item_id is a foreign
\* key ("Delete tasks first (to satisfy FK)"), fails. The worker reads the row
\* of its task for the feedback, so the commit waits for the feedback when
\* the completion is written.
NextRace ==
    \/ \E c \in Chats, m \in MsgIds :
          process_message(c, m) /\ ndup' = ndup /\ nfaults' = nfaults
    \/ /\ process_next_task(1)
       /\ nfaults' = nfaults
       /\ wresult'[1].err = None
    \/ WOkUpdateErr(1) /\ The(wresult[1].item) \notin DOMAIN items
    \/ \E id \in 1..nextItemId :
          /\ dl.resp = None
          /\ delete_item(id)
          /\ dl.pc = "tx" => pc[1] # "ok_feedback"

SpecRace == Init /\ [][NextRace]_vars

\* the runs of one reacting user: submissions delivered once, the single
\* worker with a pipeline that succeeds and a chat transport that accepts
\* every call, and the reaction updates of one user, each handled to its end
\* before the next
NextMirror ==
    \/ \E c \in Chats, m \in MsgIds :
          process_message(c, m) /\ ndup' = ndup /\ nfaults' = nfaults
    \/ /\ process_next_task(1)
       /\ nfaults' = nfaults
       /\ wresult'[1].err = None
    \/ \E t \in TaskIds, new \in UpdateLists : UserReacts(t, new)
    \/ RReturn
    \/ RSkip
    \/ RUpsert
    \/ RAttach
    \/ RDetach

SpecMirror == Init /\ [][NextMirror]_vars

\* the random listing runs: submissions and albums processed by the single
\* worker without faults, and then one random listing
NextRandom ==
    \/ /\ api = ApiIdle
       /\ \/ \E c \in Chats, m \in MsgIds :
                process_message(c, m) /\ ndup' = ndup /\ nfaults' = nfaults
          \/ \E c \in Chats, m \in MsgIds, g \in TagAlbumIds :
                enqueue_album(c, m, g) /\ ndup' = ndup
          \/ /\ process_next_task(1)
             /\ nfaults' = nfaults
             /\ wresult'[1].err = None
    \/ api = ApiIdle /\ ListRandom

SpecRandom == Init /\ [][NextRandom]_vars

\* the timeline walks: a client pages through a store at rest
NextTimeline == ListTimeline

SpecTimeline == InitSearch /\ [][NextTimeline]_vars

\* the link runs: one Item rendered
NextLinks == api = ApiIdle /\ RenderLinks

SpecLinks == Init /\ [][NextLinks]_vars

\* the hashing runs: one task's bytes and text hashed
NextHash == api = ApiIdle /\ ContentHash

SpecHash == Init /\ [][NextHash]_vars

\* ------------------------------------------------------------------ claims

\* no worker is between the lease of t and the end of process_next_task
Handled(t) == ~ \E w \in Workers : Holding(w) /\ wtask[w] = Some(t)

\* the error replies on the chat surface that answer t's submission
RepliesOf(t) == {r \in DOMAIN replies : replies[r].to = KeyOf(t)}

UniqueKeys == \A t, u \in TaskIds : KeyOf(t) = KeyOf(u) => t = u

AllowedTransitions ==
    {<<"pending", "processing">>, <<"processing", "completed">>,
     <<"processing", "failed">>}

\* C1: Lease exclusivity. A pending task is leased by at most one worker: a
\* task is leased at most once per time it was made pending (once at enqueue,
\* once more per operator reset), and two workers never hold the same task.
C1_LeaseExclusivity ==
    /\ \A t \in TaskIds : hist[t].leases <= hist[t].resets + 1
    /\ \A w1, w2 \in Workers :
          (w1 # w2 /\ Holding(w1) /\ Holding(w2)) => wtask[w1] # wtask[w2]

\* two leasers with open lease transactions at the same time, each on its own row
C1_Witness ==
    \E w1, w2 \in Workers :
        /\ w1 # w2
        /\ pc[w1] = "locked" /\ pc[w2] = "locked"
        /\ wtask[w1] # wtask[w2]

\* C2: Enqueue is idempotent on (bot_chat_id, bot_message_id): a submission of
\* coordinates that already have a task row leaves the tasks table exactly as
\* it was (every column of every row), and no two rows share coordinates.
C2_EnqueueIdempotent ==
    [][(ndup' # ndup => tasks' = tasks) /\ UniqueKeys']_vars

\* a completed submission that was delivered again after its heart was set
\* (with no transport failure, only process_message can have put eyes back)
C2_Witness ==
    \E t \in TaskIds :
        /\ tasks[t].status = "completed"
        /\ Handled(t)
        /\ ndup > 0 /\ nfaults = 0
        /\ tasks[t].payload.tg_group_id = None
        /\ reaction[KeyOf(t)] = "eyes"

\* C3: Every status change made by the system (everything but the operator's
\* reset) is pending->processing, processing->completed or processing->failed;
\* a new row starts pending.
C3_StatusTransitions ==
    [][/\ \A t \in TaskIds :
             (t \in DOMAIN tasks' /\ tasks'[t].status # tasks[t].status
                 /\ nresets' = nresets)
             => <<tasks[t].status, tasks'[t].status>> \in AllowedTransitions
       /\ \A t \in DOMAIN tasks' \ TaskIds : tasks'[t].status = "pending"]_vars

\* both terminal statuses reached, one of them on a second attempt
C3_Witness ==
    \E t, u \in TaskIds :
        /\ tasks[t].status = "completed"
        /\ tasks[u].status = "failed"
        /\ hist[u].leases = 2

\* C4: A task row whose item_id is set has status completed.
C4_ItemIdImpliesCompleted ==
    \A t \in TaskIds : tasks[t].item_id # None => tasks[t].status = "completed"

\* a row that got its item_id on the attempt after an operator reset
C4_Witness ==
    \E t \in TaskIds : tasks[t].item_id # None /\ hist[t].resets > 0

\* C5: A task row whose error_message is set has status failed, also after
\* an operator reset (status only) and a second, successful attempt. Stated
\* on the rows the worker wrote last (the terminal rows): one that carries an
\* error_message is failed.
C5_ErrorMessageImpliesFailed ==
    \A t \in TaskIds :
        (tasks[t].status \in TerminalStatuses /\ tasks[t].error_message # None)
        => tasks[t].status = "failed"

\* C6: With a single worker the row a lease selects has the least created_at
\* of all rows pending at that moment.
C6_FifoLease ==
    [][\A w \in Workers :
          (pc[w] = "idle" /\ pc'[w] = "locked")
          => \A u \in TaskIds :
                tasks[u].status = "pending"
                => tasks[The(wtask'[w])].created_at <= tasks[u].created_at]_vars

\* the worker selected a row while a strictly younger row was pending too
C6_Witness ==
    \E w \in Workers :
        /\ pc[w] = "locked"
        /\ \E u \in TaskIds :
              /\ tasks[u].status = "pending"
              /\ tasks[u].created_at > tasks[Task(w)].created_at

\* the reaction the album policy prescribes for the members' statuses
AlbumExpected(c, g) ==
    LET mem == AlbumMembers(tasks, c, g)
    IN  IF \E t \in mem : tasks[t].status = "failed" THEN "down"
        ELSE IF \A t \in mem : tasks[t].status = "completed" THEN "heart"
        ELSE "eyes"

AlbumQuiet(c, g) == \A t \in AlbumMembers(tasks, c, g) : Handled(t)

\* C7: Album convergence. Once every member of an album (two members or
\* more, as in the scenario of members 10, 11, 12) is terminal and the
\* worker has finished handling the last one, the leader carries thumbs-down
\* if some member is failed and heart if all are completed (stated for runs
\* in which no submission was re-delivered and no transport call failed).
C7_AlbumConvergence ==
    \A c \in Chats, g \in GroupIds :
        LET mem == AlbumMembers(tasks, c, g)
        IN  (/\ Cardinality(mem) >= 2
             /\ \A t \in mem : tasks[t].status \in TerminalStatuses
             /\ AlbumQuiet(c, g)
             /\ ndup = 0 /\ nfaults = 0)
            => reaction[<<c, AlbumLeader(tasks, c, g)>>] = AlbumExpected(c, g)

\* C8: Album reaction as a state invariant. Whenever no worker is handling a
\* member, the leader's reaction is thumbs-down iff some sibling is failed,
\* else heart iff every sibling is completed, else the initial eyes (stated
\* for runs in which no submission was re-delivered and no transport call
\* failed).
C8_AlbumReactionInvariant ==
    \A c \in Chats, g \in GroupIds :
        (/\ AlbumMembers(tasks, c, g) # {}
         /\ AlbumQuiet(c, g)
         /\ ndup = 0 /\ nfaults = 0)
        => LET r == reaction[<<c, AlbumLeader(tasks, c, g)>>]
               mem == AlbumMembers(tasks, c, g)
           IN  /\ r = "down" <=> \E t \in mem : tasks[t].status = "failed"
               /\ (~ \E t \in mem : tasks[t].status = "failed")
                  => (r = "heart" <=> \A t \in mem : tasks[t].status = "completed")
               /\ r \in {"down", "heart", "eyes"}

\* C9: For a task without tg_group_id that the worker has finished handling,
\* the chat transport having accepted the reaction call, the reaction on the
\* submission is heart when the task is completed and thumbs-down when it is
\* failed.
C9_TerminalReaction ==
    \A t \in TaskIds :
        (/\ tasks[t].payload.tg_group_id = None
         /\ Handled(t)
         /\ ~hist[t].reactFault)
        => /\ tasks[t].status = "completed" => reaction[KeyOf(t)] = "heart"
           /\ tasks[t].status = "failed" => reaction[KeyOf(t)] = "down"

\* the error-reply lifecycle of every task; with acceptedOnly, the parts about
\* what the calls did are stated for the tasks whose send, edit and delete
\* calls the chat transport accepted
ReplyLifecycle(acceptedOnly) ==
    \A t \in TaskIds :
        LET Accepted(u) == acceptedOnly => ~hist[u].replyFault IN
        \* at most one error reply per task exists at any time
        /\ Cardinality(RepliesOf(t)) <= 1
        \* a completed task has error_reply_id NULL
        /\ tasks[t].status = "completed" => tasks[t].error_reply_id = None
        \* a failure sent one reply, once, stored its id, and every later
        \* failure edited that message: it shows the latest error
        /\ (Accepted(t) /\ Handled(t) /\ tasks[t].status = "failed")
           => /\ tasks[t].error_reply_id # None
              /\ RepliesOf(t) = tasks[t].error_reply_id
              /\ hist[t].sends = 1
              /\ replies[The(tasks[t].error_reply_id)].text = The(tasks[t].error_message)
        \* a success deleted the reply
        /\ (Accepted(t) /\ Handled(t) /\ tasks[t].status = "completed")
           => RepliesOf(t) = {}

IsPanicMessage(e) ==
    Len(e) >= Len(PanicPrefix) /\ SubSeq(e, 1, Len(PanicPrefix)) = PanicPrefix

Listed == Range(list_items(items, None, None, None, Some(100)))

\* C12: Visibility. An Item created by the pipeline is returned by the item
\* listing if and only if the task that produced it has status completed.
C12_Visibility ==
    \A t \in TaskIds : \A i \in hist[t].items :
        i \in Listed <=> tasks[t].status = "completed"

\* C13: Items are created exclusively by successful completion. Once the
\* worker has finished handling an attempt of a task, every Item row an
\* attempt of the task inserted is the item_id of exactly one task, which is
\* completed; a task that is not completed has left no Item row behind; and
\* a task never has more than one Item.
C13_ItemsOnlyByCompletion ==
    \A t \in TaskIds :
        Handled(t)
        => /\ \A i \in hist[t].items \cap DOMAIN items :
                 /\ tasks[t].status = "completed"
                 /\ {u \in TaskIds : tasks[u].item_id = Some(i)} = {t}
           /\ tasks[t].status # "completed" => hist[t].items \cap DOMAIN items = {}
           /\ Cardinality(hist[t].items) <= 1

\* the tasks of a submission
TasksAt(key) == {t \in TaskIds : KeyOf(t) = key}

\* C14: A reaction update on a submission whose task has no item_id yet
\* (task missing, pending, processing or failed) is ignored: the handler
\* resolves no Item, and from there it returns without changing a tag row,
\* an Item or a task row.
C14_ReactionBeforeItemIgnored ==
    [][/\ (rh.pc = "idle" /\ rh'.pc = "loop")
          => /\ (\A t \in TasksAt(The(rh'.msg)) : tasks[t].item_id = None)
                => rh'.item = None
             /\ tasks' = tasks /\ items' = items /\ tagRows' = tagRows
       /\ (rh.pc = "loop" /\ rh.item = None /\ rh' # rh)
          => /\ rh'.pc = "idle"
             /\ tasks' = tasks /\ items' = items /\ tagRows' = tagRows]_vars

\* an update with a reaction to add, on a submission whose Item is inserted
\* but whose task is still processing, was resolved to no Item
C14_Witness ==
    /\ rh.pc = "loop" /\ rh.item = None
    /\ \E r \in rh.added : reaction_key(r) # None
    /\ \E t \in TasksAt(The(rh.msg)) :
          tasks[t].status = "processing" /\ hist[t].items # {}

\* the reaction handler run from start to end on the store S = [rows, next,
\* items]: the added reactions in the order as, then the removed ones in the
\* order rs
RECURSIVE ApplyAdded(_, _, _)
ApplyAdded(S, i, as) ==
    IF as = <<>> THEN S
    ELSE IF reaction_key(Head(as)) = None THEN ApplyAdded(S, i, Tail(as))
    ELSE LET u == upsert_tag_id(S.rows, S.next, The(reaction_key(Head(as))))
         IN  ApplyAdded([rows |-> u.rows, next |-> u.next,
                         items |-> attach_tag_to_item(S.items, i, u.id)],
                        i, Tail(as))

RECURSIVE ApplyRemoved(_, _, _)
ApplyRemoved(S, i, rs) ==
    IF rs = <<>> THEN S
    ELSE IF reaction_key(Head(rs)) = None THEN ApplyRemoved(S, i, Tail(rs))
    ELSE LET tag == TagIdOf(S.rows, The(reaction_key(Head(rs))))
         IN  ApplyRemoved(IF tag = None THEN S
                          ELSE [S EXCEPT !.items = detach_tag_from_item(@, i, The(tag))],
                          i, Tail(rs))

HandleUpdate(S, i, as, rs) == ApplyRemoved(ApplyAdded(S, i, as), i, rs)

Store == [rows |-> tagRows, next |-> nextTagId, items |-> items]

Occurrences(seq, x) == Cardinality({k \in DOMAIN seq : seq[k] = x})

AlbumOf(t) ==
    AlbumMembers(tasks, tasks[t].bot_chat_id, The(tasks[t].payload.tg_group_id))

\* the album of the submission the handler is at, when all its members are
\* completed and the reacted member's Item carries the handler's tag
AlbumTagged ==
    /\ rh.pc = "loop" /\ rh.tag # None /\ rh.item # None
    /\ The(rh.item) \in DOMAIN items
    /\ HasTag(items[The(rh.item)], The(rh.tag))
    /\ \E t \in TasksAt(The(rh.msg)) :
          /\ tasks[t].item_id = rh.item
          /\ payload_group_id_str(tasks[t].payload) # None
          /\ \A u \in AlbumOf(t) :
                /\ tasks[u].status = "completed"
                /\ tasks[u].item_id # None
                /\ The(tasks[u].item_id) \in DOMAIN items

\* the Items of the members of that album
AlbumItems ==
    {The(tasks[u].item_id) :
        u \in UNION {AlbumOf(t) : t \in {x \in TasksAt(The(rh.msg)) : tasks[x].item_id = rh.item}}}

Cursors == {None} \cup {Some(i) : i \in DOMAIN items}
EntityFilters == {None, Some(-100)}
Limits == {None, Some(1)}

\* the Items that contain the tag, and the Items that share an album id with
\* one of them
DirectlyTagged(tag) == {i \in DOMAIN items : \E k \in DOMAIN items[i].tags : items[i].tags[k] = tag}
TaggedByAlbum(tag) ==
    {i \in DOMAIN items :
        /\ items[i].tg_group_id # None
        /\ \E j \in DirectlyTagged(tag) : items[j].tg_group_id = items[i].tg_group_id}

C18_TagDeleteIntegrity ==
    [][/\ \A t \in DOMAIN tagRows :
             t \notin DOMAIN tagRows'
             => \A i \in DOMAIN items' : ~HasTag(items'[i], t)
       /\ \A t \in 1..MaxTags, i \in DOMAIN items :
             (rh' = rh /\ i \in DOMAIN items'
                /\ HasTag(items[i], t) /\ ~HasTag(items'[i], t))
             => t \notin DOMAIN tagRows']_vars

\* the first tag was on an Item with the second when it was deleted: its row
\* is gone, and the Item keeps the second only
C18_Witness ==
    /\ nextTagId > 2
    /\ 1 \notin DOMAIN tagRows
    /\ 2 \in DOMAIN tagRows
    /\ \E i \in DOMAIN items : items[i].tags = <<2>>

\* the Items that reference entity e
Referencing(its, e) ==
    {i \in DOMAIN its : its[i].tg_chat_id = Some(e) \/ its[i].tg_user_id = Some(e)}

EntityIds == {-100, 7}

\* C19: Entity GC. A step that deletes the last Item referencing entity E
\* leaves no entity row E, and a step that removes an entity row leaves no
\* Item that references it.
C19_EntityGC ==
    [][\A e \in EntityIds :
          /\ (\E i \in Referencing(items, e) : i \notin DOMAIN items')
                /\ Referencing(items', e) = {}
             => e \notin entities'
          /\ (e \in entities /\ e \notin entities')
             => Referencing(items', e) = {}]_vars

\* a second Item of the entity was created, and the deletion of the last
\* Item that referenced the entity has removed its row
C19_Witness ==
    /\ dl.pc = "s3"
    /\ nextItemId > 2
    /\ dl.ents = {-100}
    /\ Referencing(items, -100) = {}
    /\ -100 \notin entities

\* the transaction of an item deletion commits
Committing == dl.pc = "tx" /\ dl'.pc = "s3"

\* C20: Deletion cascade. The commit of DELETE /items/:id removes the Item
\* row and every task row with that item_id in one step and touches no blob;
\* a blob is deleted only after the commit, and only a key of the deleted
\* Item; from the commit on the request changes no row and ends with the
\* success response, whether or not a blob deletion failed; at the success
\* response no Item row i and no task row with item_id = i exist.
C20_DeletionCascade ==
    [][/\ Committing
          => /\ The(dl.id) \in DOMAIN items
             /\ The(dl.id) \notin DOMAIN items'
             /\ \A t \in DOMAIN tasks' : tasks'[t].item_id # dl.id
             /\ blobs' = blobs
       /\ \A i \in DOMAIN items :
             i \notin DOMAIN items' => (Committing /\ dl.id = Some(i))
       /\ \A t \in DOMAIN tasks :
             t \notin DOMAIN tasks' => (Committing /\ tasks[t].item_id = dl.id)
       /\ \A k \in blobs :
             k \notin blobs'
             => /\ dl.pc = "s3" /\ dl'.pc = "s3"
                /\ k[2] = The(dl.id)
                /\ The(dl.id) \notin DOMAIN items
       /\ (dl.pc = "s3" /\ dl' # dl)
          => /\ tasks' = tasks /\ items' = items /\ entities' = entities
             /\ dl'.pc = "s3" \/ dl'.resp = Some(200)
       /\ (dl.pc = "s3" /\ dl.keys # <<>>)
          => ENABLED (dl' = [dl EXCEPT !.keys = Tail(@)] /\ blobs' = blobs
                        /\ UNCHANGED <<besideDeletion, tasks, items, entities>>)
       /\ (dl'.resp = Some(200) /\ dl' # dl)
          => /\ dl.pc = "s3"
             /\ The(dl.id) \notin DOMAIN items'
             /\ \A t \in DOMAIN tasks' : tasks'[t].item_id # dl.id]_vars

\* the deletion of an Item with a file answered success although the
\* deletion of a blob failed: the Item and its task are gone, the blob is left
C20_Witness ==
    /\ dl.pc = "idle" /\ dl.resp = Some(200)
    /\ The(dl.id) \notin DOMAIN items
    /\ \A t \in DOMAIN tasks : tasks[t].item_id # dl.id
    /\ <<"media", The(dl.id)>> \in blobs
    /\ <<"thumb", The(dl.id)>> \notin blobs

\* ------------------------------------------------ claims: search and reads

\* C21: RRF monotonicity. When a single channel of a search has hits and every
\* other channel is empty, an id the channel ranks behind another comes after
\* it in the fused output, and is never returned without it.
C21_RRFMonotone ==
    api.op = "search_items" =>
        \A c \in DOMAIN api.req.channels :
            (\A d \in DOMAIN api.req.channels \ {c} : api.req.channels[d] = <<>>)
            => \A x, y \in DOMAIN api.req.channels[c] :
                  x < y =>
                    \A py \in DOMAIN api.req.merged :
                        api.req.merged[py] = api.req.channels[c][y].id
                        => \E px \in 1..(py - 1) :
                              api.req.merged[px] = api.req.channels[c][x].id

\* a search whose only hits are two ids of one channel, another channel
\* having answered with nothing, returned both
C21_Witness ==
    /\ api.op = "search_items"
    /\ Len(api.req.channels) >= 2
    /\ \E c \in DOMAIN api.req.channels :
          /\ Len(api.req.channels[c]) = 2
          /\ \A d \in DOMAIN api.req.channels \ {c} : api.req.channels[d] = <<>>
          /\ api.req.merged = <<api.req.channels[c][1].id, api.req.channels[c][2].id>>

\* the sum over the hits of id in every channel of 1/(rrf_k + rank), in units
\* of 1/ScoreUnit
FusedScore(channels, id) ==
    SumOver([c \in DOMAIN channels |->
                SumOver([r \in DOMAIN channels[c] |-> HitScore(rrf_k, r)],
                        {r \in DOMAIN channels[c] : channels[c][r].id = id})],
            DOMAIN channels)

\* C22: RRF fusion. The fused output of a search holds only ids with a hit,
\* each at most once, in non-increasing order of the sum over their hits of
\* 1/(60 + rank), and is the first top_n of them: no id left out scores above
\* one returned. With id 101 at rank 1 and rank 2 in two channels and id 102 at
\* rank 1 in a third, 101 comes first and 102 after it.
C22_RRFFusion ==
    api.op = "search_items" =>
        LET channels == api.req.channels
            merged == api.req.merged
            ids == HitIds(channels)
            top_n == as_usize(SearchLimit(api.req.params.limit))
            score == [i \in ids |-> FusedScore(channels, i)]
        IN  /\ Range(merged) \subseteq ids
            /\ Cardinality(Range(merged)) = Len(merged)
            /\ \A p \in DOMAIN merged :
                  p > 1 => score[merged[p - 1]] >= score[merged[p]]
            /\ Len(merged) = IF top_n.wraps \/ top_n.n >= Cardinality(ids)
                             THEN Cardinality(ids) ELSE top_n.n
            /\ \A i \in ids \ Range(merged) :
                  merged # <<>> => score[merged[Len(merged)]] >= score[i]
            /\ (/\ {101, 102} \subseteq ids
                /\ score[101] = HitScore(rrf_k, 1) + HitScore(rrf_k, 2)
                /\ score[102] = HitScore(rrf_k, 1)
                /\ \A i \in ids \ {101} : score[i] <= HitScore(rrf_k, 1)
                /\ Len(merged) >= 2)
               => /\ merged[1] = 101
                  /\ \E p \in DOMAIN merged : merged[p] = 102

\* the search of the example: 101 first in one channel and second in another,
\* 102 first in a third, fused to 101 and then 102
C22_Witness ==
    /\ api.op = "search_items"
    /\ Len(api.req.channels) = 3
    /\ \E a, b, c \in DOMAIN api.req.channels :
          /\ api.req.channels[a] = Ranked(<<101>>)
          /\ Len(api.req.channels[b]) = 2 /\ api.req.channels[b][2].id = 101
          /\ api.req.channels[c] = Ranked(<<102>>)
    /\ SubSeq(api.req.merged, 1, 2) = <<101, 102>>
    /\ Len(api.req.merged) = 3

\* C23: a search carrying q or image_url never fails because recall channels
\* fail. Only the hydration of the fused ids can fail it; the channels that
\* answered are the ones fused, the response holds the fused ids of the asked
\* type, and when every channel is empty or omitted the response is a success
\* with no items and total 0.
C23_RecallFailuresTolerated ==
    (/\ api.op = "search_items"
     /\ api.req.params.q # None \/ api.req.params.image_url # None)
    => LET asked == {c \in 1..4 : IF c <= 3 THEN api.req.params.q # None
                                  ELSE api.req.params.image_url # None}
           answered == {c \in asked : api.req.recall[c] # None}
       IN  /\ api.resp.status \in {200, 500}
           /\ api.resp.status = 500 => (~api.req.fetch_ok /\ api.req.merged # <<>>)
           /\ Len(api.req.channels) = Cardinality(answered)
           /\ \A c \in answered :
                 \E x \in DOMAIN api.req.channels :
                    /\ Len(api.req.channels[x]) = Len(The(api.req.recall[c]))
                    /\ \A r \in DOMAIN api.req.channels[x] :
                          api.req.channels[x][r] =
                              [id |-> The(api.req.recall[c])[r], rank |-> r]
           /\ api.resp.status = 200
              => /\ api.resp.total = Len(api.resp.items)
                 /\ api.resp.items =
                        SelectSeq(api.req.merged,
                                  LAMBDA i : api.req.params.type # None
                                             => ItemType(items[i]) = The(api.req.params.type))
           /\ (\A c \in answered : The(api.req.recall[c]) = <<>>)
              => api.resp = [status |-> 200, items |-> <<>>, total |-> 0]

\* a search by text whose dense channel failed answered with the hits of the
\* two other channels
C23_Witness ==
    /\ api.op = "search_items"
    /\ api.req.params.q # None /\ api.req.params.image_url = None
    /\ api.req.recall[1] = None
    /\ api.req.recall[2] # None /\ api.req.recall[3] # None
    /\ api.resp.status = 200 /\ api.resp.total = 2

\* a search all of whose channels failed answered with an empty success
C23_WitnessAllFailed ==
    /\ api.op = "search_items"
    /\ api.req.params.q # None /\ api.req.params.image_url # None
    /\ \A c \in 1..4 : api.req.recall[c] = None
    /\ api.resp = [status |-> 200, items |-> <<>>, total |-> 0]

\* C24: search limit cap. Whatever the limit parameter, a search response
\* holds at most 100 items, at most limit items when 0 <= limit <= 100, and at
\* most 50 when the limit is absent.
C24_LimitCap ==
    api.op = "search_items" =>
        LET limit == api.req.params.limit IN
        /\ Len(api.resp.items) <= 100
        /\ limit = None => Len(api.resp.items) <= 50
        /\ (limit # None /\ The(limit) >= 0 /\ The(limit) <= 100)
           => Len(api.resp.items) <= The(limit)

\* C25: content hash composition. The content_hash of a task with a file and
\* a non-empty text is md5(hex(md5(file_bytes)) ++ hex(md5(content_text))),
\* with only a file md5(file_bytes), with only a text md5(content_text), each
\* in lower-case hex: a function of the two inputs alone.
C25_ContentHash ==
    api.op = "content_hash" =>
        LET f == api.req.file_bytes
            t == api.req.content_text
        IN  /\ (f # <<>> /\ t # <<>>)
               => api.resp = HexLower(Md5(HexLower(Md5(f)) \o HexLower(Md5(t))))
            /\ (f # <<>> /\ t = <<>>) => api.resp = HexLower(Md5(f))
            /\ (f = <<>> /\ t # <<>>) => api.resp = HexLower(Md5(t))

\* a task with a file and a text was hashed over the two digests
C25_Witness ==
    /\ api.op = "content_hash"
    /\ api.req.file_bytes = <<0, 1>> /\ api.req.content_text = <<1>>
    /\ api.resp = HexLower(Md5(HexLower(Md5(<<0, 1>>)) \o HexLower(Md5(<<1>>))))

\* C26 as stated: the link of a chat_id at or below -10^12 carries the number
\* chat_id + 10^12, a positive chat_id gives tg://user?id=<chat_id>, and any
\* other chat_id gives no link.
C26_LinkAsStated ==
    api.op = "links" =>
        LET chat == api.req.tg_chat_id
            msg == api.req.tg_message_id
        IN  api.resp.tg_link =
                IF chat # None /\ Leq64(The(chat), Neg64(ChannelOffset))
                THEN Some("https://t.me/c/" \o Display(Add64(The(chat), ChannelOffset))
                          \o (IF msg = None THEN "" ELSE "/" \o Display(The(msg))))
                ELSE IF chat # None /\ ~Leq64(The(chat), I64(0))
                THEN Some("tg://user?id=" \o Display(The(chat)))
                ELSE None

\* C26: source link synthesis. The link of a chat_id at or below -10^12 is
\* https://t.me/c/<-chat_id - 10^12> followed by /<msg_id> when there is a
\* message id, a positive chat_id gives tg://user?id=<chat_id>, and any other
\* chat_id gives no link. The listing takes the recorded author instead when
\* there is one: tg://user?id=<user_id> for a positive id, no link otherwise.
C26_SourceLink ==
    api.op = "links" =>
        LET chat == api.req.tg_chat_id
            msg == api.req.tg_message_id
            user == api.req.tg_user_id
            link == IF chat # None /\ Leq64(The(chat), Neg64(ChannelOffset))
                    THEN Some("https://t.me/c/"
                              \o Display(Sub64(Neg64(The(chat)), ChannelOffset))
                              \o (IF msg = None THEN "" ELSE "/" \o Display(The(msg))))
                    ELSE IF chat # None /\ ~Leq64(The(chat), I64(0))
                    THEN Some("tg://user?id=" \o Display(The(chat)))
                    ELSE None
        IN  /\ api.resp.tg_link = link
            /\ user = None => api.resp.source_url = link
            /\ user # None =>
                  api.resp.source_url =
                      IF ~Leq64(The(user), I64(0))
                      THEN Some("tg://user?id=" \o Display(The(user))) ELSE None

\* the message 7 of the channel -1001234567890 got the link of channel
\* 1234567890
C26_Witness ==
    /\ api.op = "links"
    /\ api.req.tg_chat_id = Some([hi |-> -1001235, lo |-> 432110])
    /\ api.req.tg_message_id = Some(I64(7))
    /\ api.req.tg_user_id = None
    /\ api.resp.tg_link = Some("https://t.me/c/1234567890/7")
    /\ api.resp.source_url = api.resp.tg_link

\* ------------------------------------------------ claims: pipeline errors

Rows == <<tasks, items, entities, tagRows, tagLabel, blobs>>

\* C28: a request that addresses a single Item or Tag by id (GET /items/:id,
\* DELETE /items/:id, GET /items/:id/raw, PATCH /tags/:id, DELETE /tags/:id)
\* and finds no row with that id answers 404, unless the store fails it, and
\* leaves every row of the store as it was.
C28_MissingIdIs404 ==
    [][/\ (/\ api' # api
           /\ IF api'.op \in {"get_item", "get_raw_item"}
              THEN api'.req.id \notin DOMAIN items
              ELSE api'.req.id \notin DOMAIN tagRows
           /\ api'.resp.status # 500)
          => (api'.resp.status = 404 /\ Rows' = Rows)
       /\ (dl.pc = "idle" /\ dl' # dl /\ The(dl'.id) \notin DOMAIN items)
          => (dl'.resp = Some(404) /\ Rows' = Rows)]_vars

\* the same for the requests that address an Item
C28_MissingItemIs404 ==
    [][/\ (/\ api' # api
           /\ api'.op \in {"get_item", "get_raw_item"}
           /\ api'.req.id \notin DOMAIN items
           /\ api'.resp.status # 500)
          => (api'.resp.status = 404 /\ Rows' = Rows)
       /\ (dl.pc = "idle" /\ dl' # dl /\ The(dl'.id) \notin DOMAIN items)
          => (dl'.resp = Some(404) /\ Rows' = Rows)]_vars

\* a tag deletion that finds no tag row answers 404 and leaves the rows alone
C28_MissingTagDeleteKeepsRows ==
    [][(/\ api' # api /\ api'.op = "delete_tag"
        /\ api'.req.id \notin DOMAIN tagRows
        /\ api'.resp.status # 500)
       => (api'.resp.status = 404 /\ Rows' = Rows)]_vars

\* ------------------------------------------------ claims: eyes and listings

\* C29: the eyes reaction is emitted when the worker leases the task: the
\* submission of a task that is pending and was never leased carries no
\* reaction, and the lease of a task puts eyes on its submission.
C29_EyesAtLease ==
    /\ \A t \in TaskIds :
          (tasks[t].status = "pending" /\ hist[t].leases = 0)
          => reaction[KeyOf(t)] = "none"
    /\ \A w \in Workers :
          pc[w] = "perform" => reaction[KeyOf(Task(w))] = "eyes"

\* C30: random-mode item listing. When a sampled Item has a tg_group_id, every
\* Item with that tg_group_id is in the response, and no Item id is in the
\* response twice.
C30_RandomAlbumsWhole ==
    api.op = "list_random" =>
        /\ \A k \in DOMAIN api.req.base_rows, j \in DOMAIN items :
              (/\ items[api.req.base_rows[k]].tg_group_id # None
               /\ items[j].tg_group_id = items[api.req.base_rows[k]].tg_group_id)
              => j \in Range(api.resp.items)
        /\ Cardinality(Range(api.resp.items)) = Len(api.resp.items)

\* the same for the listings whose sibling query the store answered
C30_RandomAlbumsWholeWhenFetched ==
    (api.op = "list_random" /\ api.req.extra_ok) =>
        /\ \A k \in DOMAIN api.req.base_rows, j \in DOMAIN items :
              (/\ items[api.req.base_rows[k]].tg_group_id # None
               /\ items[j].tg_group_id = items[api.req.base_rows[k]].tg_group_id)
              => j \in Range(api.resp.items)
        /\ Cardinality(Range(api.resp.items)) = Len(api.resp.items)

\* a random listing of limit 1 sampled one member of an album of two and
\* returned both
C30_AlbumExpanded ==
    /\ api.op = "list_random"
    /\ Len(api.req.base_rows) = 1
    /\ items[api.req.base_rows[1]].tg_group_id # None
    /\ Len(api.resp.items) = 2

\* ------------------------ claims: tagging, hydration, paging, interleavings

\* the keys of the reactions of a list that have one
KeysOf(rs) == {The(reaction_key(r)) : r \in {x \in rs : reaction_key(x) # None}}

\* the ids of the tag rows with one of the keys
TagIdsOf(tr, keys) == {t \in DOMAIN tr : tr[t] \in keys}

C32_HydrationKeepsOrder ==
    (api.op = "search_items" /\ api.resp.status = 200 /\ api.req.channels # <<>>)
    => LET merged == api.req.merged
           type == api.req.params.type
           found == api.resp.items
           kept == {i \in Range(merged) :
                       i \in DOMAIN items /\ (type # None => ItemType(items[i]) = The(type))}
       IN  /\ Range(found) = kept
           /\ found = SelectSeq(merged, LAMBDA x : x \in kept)
           /\ api.resp.total = Len(found)
           /\ Len(found) <= Len(merged)

\* two ids were fused with the larger id first and the limit left both in; the
\* Item of another fused id was deleted before the rows were fetched, and the
\* response holds the two in the fused order
C32_Witness ==
    /\ api.op = "search_items" /\ api.resp.status = 200
    /\ \E i \in Range(api.req.merged) : i \notin DOMAIN items
    /\ Len(api.resp.items) = 2
    /\ api.resp.items[1] > api.resp.items[2]
    /\ Len(api.req.merged) = 3

\* a search with a type filter and limit 1 returned nothing: the one fused id
\* left by the cut was of another type
C32_WitnessFilterAfterCut ==
    /\ api.op = "search_items" /\ api.resp.status = 200
    /\ api.req.params.limit = Some(1) /\ api.req.params.type # None
    /\ Len(api.req.merged) = 1 /\ api.req.merged[1] \in DOMAIN items
    /\ api.resp.items = <<>>

\* C33: RRF tie-breaking is stable. A second call of rrf_merge with the
\* channel inputs of the answered search returns the id list of the first,
\* whatever order its score map is iterated in: the same relative order of
\* the ids of equal score and the same survivors of the top_n cut.
C33_TieBreakStable ==
    (api.op = "search_items" /\ api.req.channels # <<>>)
    => \A order \in IterationOrders(HitIds(api.req.channels)) :
          rrf_merge(api.req.channels, rrf_k,
                    as_usize(SearchLimit(api.req.params.limit)), order)
             = api.req.merged

\* the Items a walk with the filters of the answered request has to return
WalkMatching ==
    {i \in DOMAIN items :
        api.req.entity_id # None
        => (items[i].tg_chat_id = api.req.entity_id \/ items[i].tg_user_id = api.req.entity_id)}

\* the page of the answered request is within the limit, in strictly
\* decreasing id order, below the cursor and of the filter, and its
\* next_cursor is the last id exactly when the page is full
PageInOrder ==
    LET page == api.resp.items
        l == IF api.req.limit = None THEN 20 ELSE The(api.req.limit)
        cap == IF l < 100 THEN l ELSE 100
    IN  /\ Len(page) <= cap
        /\ \A k \in 1..(Len(page) - 1) : page[k] > page[k + 1]
        /\ Range(page) \subseteq WalkMatching
        /\ api.req.cursor # None => \A k \in DOMAIN page : page[k] < The(api.req.cursor)
        /\ IF Len(page) = cap
           THEN api.resp.next_cursor = Some(page[Len(page)])
           ELSE api.resp.next_cursor = None

\* the walk that ended with the answered request returned every matching
\* Item exactly once
WalkComplete ==
    LET all == api.req.walked \o api.resp.items
    IN  api.resp.next_cursor = None
        => /\ Range(all) = WalkMatching
           /\ Len(all) = Cardinality(WalkMatching)

\* C34: Timeline-mode item listing. Each page holds at most min(limit, 100)
\* items in strictly decreasing id order, all with id below the cursor;
\* next_cursor is the last returned id exactly when the page is full; and in
\* a store at rest, following next_cursor from the first page until it is
\* null returns every matching Item exactly once.
C34_TimelinePaging ==
    api.op = "list_timeline" => (PageInOrder /\ WalkComplete)

\* the same for the walks with a limit of at least 1 whose queries the store
\* answered
C34_TimelinePagingWhenFetched ==
    (/\ api.op = "list_timeline"
     /\ api.req.ok
     /\ api.req.limit # None => The(api.req.limit) >= 1)
    => (PageInOrder /\ WalkComplete)

\* a walk with limit 101 over 101 Items ended on its second page: the first
\* page held 100 Items
C34_WalkedCappedPages ==
    /\ api.op = "list_timeline" /\ api.req.ok /\ api.req.limit = Some(101)
    /\ Len(api.req.walked) = 100
    /\ Len(api.resp.items) = 1
    /\ api.resp.next_cursor = None

\* C35: Leased tasks are never stranded by the worker itself. Under fair
\* scheduling and without a crash of the worker process, every task that is
\* leased (status processing) eventually reaches completed or failed, even
\* when a call to the relational store or to the chat transport made after
\* the pipeline finished returns an error.
C35_LeasedTerminates ==
    \A t \in 1..MaxMsgs :
        (t \in TaskIds /\ tasks[t].status = "processing")
        ~> (t \in TaskIds /\ tasks[t].status \in TerminalStatuses)

\* C36: Re-delivery of an already-enqueued submission emits no feedback. A
\* step that handles the re-delivery of a submission leaves the reaction on
\* the submission message of every terminal task that is not an album member
\* as it was, when it is the heart of a completed or the thumbs-down of a
\* failed task.
C36_RedeliverySilent ==
    [][ndup' = ndup + 1
       => \A t \in TaskIds :
             (/\ tasks[t].status \in TerminalStatuses
              /\ payload_group_id_str(tasks[t].payload) = None
              /\ reaction[KeyOf(t)]
                    = (IF tasks[t].status = "completed" THEN "heart" ELSE "down"))
             => reaction'[KeyOf(t)] = reaction[KeyOf(t)]]_vars

\* C37: Item-to-entity referential integrity under interleaving. In every
\* state reached by interleaving submissions (entity upsert at enqueue), the
\* worker (Item insert at the end of the pipeline) and DELETE /items/:id
\* (entity cleanup), every Item whose tg_chat_id or tg_user_id was upserted as
\* an entity at its submission has an entity row with that id.
C37_ItemEntityIntegrity ==
    \A t \in TaskIds : \A i \in hist[t].items \cap DOMAIN items :
        \A e \in (items[i].tg_chat_id \cup items[i].tg_user_id)
                    \cap source_entity(tasks[t].bot_message_id) :
            e \in entities

\* the item_id of every completed task is the id of an existing Item row
NoDanglingItemId ==
    \A t \in TaskIds :
        tasks[t].status = "completed" => tasks[t].item_id \subseteq DOMAIN items

\* no task whose Item was deleted is in processing with no worker on it
NoStuckProcessing ==
    \A t \in TaskIds :
        (tasks[t].status = "processing" /\ Handled(t) /\ hist[t].items # {})
        => hist[t].items \cap DOMAIN items # {}

\* C38: Task-to-item referential integrity under interleaving. In every state
\* reached by interleaving the worker's completion step with DELETE
\* /items/:id on the Item it just inserted, the item_id of every completed
\* task is the id of an existing Item row, and no task whose Item was deleted
\* is left in processing once the worker is done with it.
C38_TaskItemIntegrity == NoDanglingItemId /\ NoStuckProcessing

\* C39: No dangling tag ids under interleaving. In every state reached by
\* interleaving the reaction handler (upsert the tag, then attach its id to
\* an Item) with DELETE /tags/:id, every id in the tags of an Item is the id
\* of an existing tag row.
C39_NoDanglingTagIds ==
    \A i \in DOMAIN items : \A k \in DOMAIN items[i].tags :
        items[i].tags[k] \in DOMAIN tagRows

\* C40: Tags mirror reactions. For a submission one user reacts to, after
\* any sequence of reaction updates, some of them possibly arriving before
\* the task completed: once the task is completed and a further update has
\* been handled to its end, the tag set of the Item is the set of the tags of
\* the reactions in that update's new_reaction.
C40_TagsMirrorReactions ==
    \A t \in TaskIds :
        (/\ rh.pc = "idle"
         /\ tasks[t].status = "completed"
         /\ hist[t].onItem
         /\ tasks[t].item_id \subseteq DOMAIN items)
        => /\ KeysOf(hist[t].shown) \subseteq {tagRows[x] : x \in DOMAIN tagRows}
           /\ Range(items[The(tasks[t].item_id)].tags)
                 = TagIdsOf(tagRows, KeysOf(hist[t].shown))

====
